---- MODULE Spec2Model ----
(***************************************************************************)
(* A model of san-script: the compiler from the AST to bytecode            *)
(* (src/src/compiler.rs) and the frame-linked stack interpreter            *)
(* (src/src/interpreter.rs, frame.rs, value.rs, builtins.rs,               *)
(* builtins/types.rs).                                                     *)
(*                                                                         *)
(* Indices (instruction addresses, constant and name indices) are 0-based  *)
(* as in the source; a TLA+ sequence s holds index i at s[i + 1].          *)
(* Reference-counted cells (PtrMut<Frame>, PtrMut<Vec<Value>>) are indices *)
(* into the heaps `frames` and `lists`; 0 stands for None.                 *)
(***************************************************************************)
EXTENDS Integers, Sequences, FiniteSets, TLC

\* Integer literals of the generated programs range over 0..MaxInt.
MaxInt == 2

(***************************************************************************)
(* ast.rs: expressions and statements                                      *)
(***************************************************************************)
Identifier(name) == [e |-> "Identifier", name |-> name]

Integer(v) == [e |-> "Integer", int |-> v]

\* A float literal; the model holds the floats n/2 as the numerator n.
Float(halves) == [e |-> "Float", halves |-> halves]

String(s) == [e |-> "String", str |-> s]

List(items) == [e |-> "List", items |-> items]

Property(expr, property) == [e |-> "Property", expr |-> expr, property |-> property]

Subscript(expr, subscript) == [e |-> "Subscript", expr |-> expr, subscript |-> subscript]

Function(params, body) == [e |-> "Function", params |-> params, body |-> body]

FunctionCall(target, args) == [e |-> "FunctionCall", target |-> target, args |-> args]

Operation(lhs, op, rhs) == [e |-> "Operation", lhs |-> lhs, op |-> op, rhs |-> rhs]

Operators ==
    {"Add", "Subtract", "Multiply", "Divide", "Equals", "NotEquals",
     "LessThan", "GreaterThan", "LessThanOrEqual", "GreaterThanOrEqual"}

StmtExpression(expr) == [s |-> "Expression", expr |-> expr]

StmtReturn(expr) == [s |-> "Return", expr |-> expr]

\* `assign` is the Option<Expression>: <<>> for None, <<e>> for Some(e).
Declaration(ident, assign) == [s |-> "Declaration", ident |-> ident, assign |-> assign]

Assignment(target, source) == [s |-> "Assignment", target |-> target, source |-> source]

TargetIdentifier(ident) == [t |-> "Identifier", ident |-> ident]

TargetProperty(expr, property) == [t |-> "Property", expr |-> expr, property |-> property]

TargetSubscript(expr, subscript) == [t |-> "Subscript", expr |-> expr, subscript |-> subscript]

If(cond, body, else_body) == [s |-> "If", cond |-> cond, body |-> body, else_body |-> else_body]

(***************************************************************************)
(* instruction.rs                                                          *)
(***************************************************************************)
Instruction(op, arg) == [op |-> op, arg |-> arg]

Inst0(op) == Instruction(op, 0)

(***************************************************************************)
(* compiler.rs: constants and the CodeBuilder                              *)
(***************************************************************************)
ConstNull == [c |-> "Null"]

ConstInteger(v) == [c |-> "Integer", int |-> v]

ConstFloat(h) == [c |-> "Float", halves |-> h]

ConstString(s) == [c |-> "String", str |-> s]

ConstCode(builder) == [c |-> "Code", code |-> builder]

\* #[derive(PartialEq)] on Constant, with CodeBuilder's eq always false.
\* Constant equality that compares code constants by their content.
ConstantEq_by_content(a, b) == a = b

\* #[derive(PartialEq)] for Constant, with CodeBuilder's eq always false.
ConstantEq(a, b) ==
    IF a.c # b.c THEN FALSE
    ELSE CASE a.c = "Null" -> TRUE
           [] a.c = "Integer" -> a.int = b.int
           [] a.c = "Float" -> a.halves = b.halves
           [] a.c = "String" -> a.str = b.str
           [] OTHER -> FALSE

CodeBuilder_new(parameters) ==
    [instructions |-> <<>>, constants |-> <<>>, names |-> <<>>, parameters |-> parameters]

\* iter().position(..): the first 0-based index that matches, -1 for None.
NamePosition(names, name) ==
    IF \E i \in 1..Len(names) : names[i] = name
    THEN (CHOOSE i \in 1..Len(names) :
            /\ names[i] = name
            /\ \A j \in 1..(i - 1) : names[j] # name) - 1
    ELSE -1

ConstantPosition(constants, cons) ==
    IF \E i \in 1..Len(constants) : ConstantEq(constants[i], cons)
    THEN (CHOOSE i \in 1..Len(constants) :
            /\ ConstantEq(constants[i], cons)
            /\ \A j \in 1..(i - 1) : ~ConstantEq(constants[j], cons)) - 1
    ELSE -1

use_name(cb, name) ==
    LET namei == NamePosition(cb.names, name) IN
    IF namei >= 0
    THEN [cb |-> cb, idx |-> namei]
    ELSE [cb |-> [cb EXCEPT !.names = Append(@, name)], idx |-> Len(cb.names)]

\* use_constant without the search: every constant is appended.
use_constant_appends(cb, cons) ==
    [cb |-> [cb EXCEPT !.constants = Append(@, cons)], idx |-> Len(cb.constants)]

use_constant(cb, cons) ==
    LET consi == ConstantPosition(cb.constants, cons) IN
    IF consi >= 0
    THEN [cb |-> cb, idx |-> consi]
    ELSE [cb |-> [cb EXCEPT !.constants = Append(@, cons)], idx |-> Len(cb.constants)]

inst(cb, instruction) == [cb EXCEPT !.instructions = Append(@, instruction)]

compile_constant(cb, cons) ==
    LET u == use_constant(cb, cons) IN inst(u.cb, Instruction("LoadConstant", u.idx))

\* An instruction that carries a name index: intern the name, then emit.
inst_named(cb, op, name) ==
    LET u == use_name(cb, name) IN inst(u.cb, Instruction(op, u.idx))

\* TLC computes a LET definition when its value is first needed, so a
\* builder threaded through n steps would be evaluated as one expression
\* nested n deep.  After(done, next) is `next`, with `done` computed first:
\* the steps of a compile method are then evaluated in the order in which
\* the method takes them.
After(done, next) == IF done = done THEN next ELSE done

RECURSIVE use_names(_, _)
use_names(cb, params) ==
    IF params = <<>> THEN cb
    ELSE LET used == use_name(cb, Head(params)).cb IN
         After(used, use_names(used, Tail(params)))

RECURSIVE compile_statement(_, _)
RECURSIVE compile_statements(_, _)
RECURSIVE compile_expression(_, _)
RECURSIVE compile_rev(_, _)
RECURSIVE compile_if_statement(_, _, _, _)
RECURSIVE compile_function(_, _, _)

\* compile_operation that compiles the left-hand operand first.
compile_operation_lhs_first(cb, lhs, op, rhs) ==
    LET c1 == compile_expression(cb, lhs)
        c2 == compile_expression(c1, rhs)
    IN After(c1, After(c2, inst(c2, Inst0(op))))

compile_operation(cb, lhs, op, rhs) ==
    LET c1 == compile_expression(cb, rhs)
        c2 == compile_expression(c1, lhs)
    IN After(c1, After(c2, inst(c2, Inst0(op))))

compile_assignment(cb, target, source) ==
    LET c1 == compile_expression(cb, source) IN
    After(c1,
      CASE target.t = "Identifier" -> inst_named(c1, "StoreVariable", target.ident)
        [] target.t = "Property" ->
              LET c2 == compile_expression(c1, target.expr)
              IN After(c2, inst_named(c2, "StoreProperty", target.property))
        [] target.t = "Subscript" ->
              LET c2 == compile_expression(c1, target.subscript)
                  c3 == compile_expression(c2, target.expr)
              IN After(c2, After(c3, inst(c3, Inst0("StoreSubscript")))))

\* compile_function without the closing LoadConstant(Null), Return.
compile_function_open_end(cb, params, body) ==
    LET code0 == CodeBuilder_new(Len(params))
        code1 == use_names(code0, params)
        code2 == compile_statements(code1, body)
    IN After(code1, After(code2,
         inst(compile_constant(cb, ConstCode(code2)), Inst0("CreateFunction"))))

compile_function(cb, params, body) ==
    LET code0 == CodeBuilder_new(Len(params))
        code1 == use_names(code0, params)
        code2 == compile_statements(code1, body)
        code3 == compile_constant(code2, ConstNull)
        code4 == inst(code3, Inst0("Return"))
    IN After(code1, After(code2, After(code4,
         inst(compile_constant(cb, ConstCode(code4)), Inst0("CreateFunction")))))

compile_call(cb, target, arguments) ==
    LET c1 == compile_rev(cb, arguments)
        c2 == compile_expression(c1, target)
    IN After(c1, After(c2, inst(c2, Instruction("Call", Len(arguments)))))

compile_list(cb, items) ==
    LET c1 == compile_rev(cb, items)
    IN After(c1, inst(c1, Instruction("CreateList", Len(items))))

\* `for x in xs.iter().rev() { self.compile_expression(x) }`
compile_rev(cb, exprs) ==
    IF exprs = <<>> THEN cb
    ELSE LET done == compile_expression(cb, exprs[Len(exprs)])
         IN After(done, compile_rev(done, SubSeq(exprs, 1, Len(exprs) - 1)))

compile_expression(cb, expr) ==
    CASE expr.e = "Operation" -> compile_operation(cb, expr.lhs, expr.op, expr.rhs)
      [] expr.e = "Integer" -> compile_constant(cb, ConstInteger(expr.int))
      [] expr.e = "Float" -> compile_constant(cb, ConstFloat(expr.halves))
      [] expr.e = "String" -> compile_constant(cb, ConstString(expr.str))
      [] expr.e = "Function" -> compile_function(cb, expr.params, expr.body)
      [] expr.e = "FunctionCall" -> compile_call(cb, expr.target, expr.args)
      [] expr.e = "Subscript" ->
            LET c1 == compile_expression(cb, expr.subscript)
                c2 == compile_expression(c1, expr.expr)
            IN After(c1, After(c2, inst(c2, Inst0("LoadSubscript"))))
      [] expr.e = "Property" ->
            LET c1 == compile_expression(cb, expr.expr)
            IN After(c1, inst_named(c1, "LoadProperty", expr.property))
      [] expr.e = "List" -> compile_list(cb, expr.items)
      [] expr.e = "Identifier" -> inst_named(cb, "LoadVariable", expr.name)

\* Variants of compile_if_statement that patch other targets; the checks of
\* the jump targets are run against them as well.
compile_if_statement_past_end(cb, cond, body, else_body) ==
    LET c1 == compile_expression(cb, cond)
        label_start == Len(c1.instructions)
        c2 == inst(c1, Instruction("JumpFalse", 0))
        c3 == compile_statements(c2, body)
        label_end0 == Len(c3.instructions)
    IN  After(c1, After(c3,
        IF else_body # <<>>
        THEN LET label_else == Len(c3.instructions)
                 c4 == inst(c3, Instruction("Jump", 0))
                 label_end == label_end0 + 1
                 c5 == compile_statements(c4, else_body)
                 label_else_end == Len(c5.instructions)
                 c6 == [c5 EXCEPT !.instructions[label_else + 1] =
                                      Instruction("Jump", label_else_end + 1)]
             IN After(c5, [c6 EXCEPT !.instructions[label_start + 1] =
                                         Instruction("JumpFalse", label_end - 1)])
        ELSE [c3 EXCEPT !.instructions[label_start + 1] =
                            Instruction("JumpFalse", label_end0 + 1)]))

compile_if_statement_to_label(cb, cond, body, else_body) ==
    LET c1 == compile_expression(cb, cond)
        label_start == Len(c1.instructions)
        c2 == inst(c1, Instruction("JumpFalse", 0))
        c3 == compile_statements(c2, body)
        label_end0 == Len(c3.instructions)
    IN  After(c1, After(c3,
        IF else_body # <<>>
        THEN LET label_else == Len(c3.instructions)
                 c4 == inst(c3, Instruction("Jump", 0))
                 label_end == label_end0 + 1
                 c5 == compile_statements(c4, else_body)
                 label_else_end == Len(c5.instructions)
                 c6 == [c5 EXCEPT !.instructions[label_else + 1] =
                                      Instruction("Jump", label_else_end - 1)]
             IN After(c5, [c6 EXCEPT !.instructions[label_start + 1] =
                                         Instruction("JumpFalse", label_end)])
        ELSE [c3 EXCEPT !.instructions[label_start + 1] =
                            Instruction("JumpFalse", label_end0)]))

compile_if_statement(cb, cond, body, else_body) ==
    LET c1 == compile_expression(cb, cond)
        label_start == Len(c1.instructions)
        c2 == inst(c1, Instruction("JumpFalse", 0))
        c3 == compile_statements(c2, body)
        label_end0 == Len(c3.instructions)
    IN  After(c1, After(c3,
        IF else_body # <<>>
        THEN LET label_else == Len(c3.instructions)
                 c4 == inst(c3, Instruction("Jump", 0))
                 label_end == label_end0 + 1
                 c5 == compile_statements(c4, else_body)
                 label_else_end == Len(c5.instructions)
                 c6 == [c5 EXCEPT !.instructions[label_else + 1] =
                                      Instruction("Jump", label_else_end - 1)]
             IN After(c5, [c6 EXCEPT !.instructions[label_start + 1] =
                                         Instruction("JumpFalse", label_end - 1)])
        ELSE [c3 EXCEPT !.instructions[label_start + 1] =
                            Instruction("JumpFalse", label_end0 - 1)]))

compile_statement(cb, stmt) ==
    CASE stmt.s = "Return" ->
            LET c1 == compile_expression(cb, stmt.expr)
            IN After(c1, inst(c1, Inst0("Return")))
      [] stmt.s = "Expression" ->
            LET c1 == compile_expression(cb, stmt.expr)
            IN After(c1, inst(c1, Inst0("Pop")))
      [] stmt.s = "Declaration" ->
            LET c1 == IF stmt.assign # <<>>
                      THEN compile_expression(cb, stmt.assign[1])
                      ELSE compile_constant(cb, ConstNull)
            IN After(c1, inst_named(c1, "Declare", stmt.ident))
      [] stmt.s = "Assignment" -> compile_assignment(cb, stmt.target, stmt.source)
      [] stmt.s = "If" -> compile_if_statement(cb, stmt.cond, stmt.body, stmt.else_body)

\* `for stmt in body { self.compile_statement(stmt) }`
compile_statements(cb, stmts) ==
    IF stmts = <<>> THEN cb
    ELSE LET done == compile_statement(cb, Head(stmts))
         IN After(done, compile_statements(done, Tail(stmts)))

\* compile_module without the closing Exit(0).
compile_module_no_exit(cb, body) == compile_statements(cb, body)

compile_module(cb, body) == inst(compile_statements(cb, body), Instruction("Exit", 0))

(***************************************************************************)
(* value.rs: runtime values.  Value::Frame and Value::Type are left out:   *)
(* nothing creates one.  No instruction sequence the compiler emits        *)
(* creates a Value::Object either (object literals are todo!() in          *)
(* compile_expression); an Object reaches the interpreter only in the      *)
(* frame handed to Interpreter::new.  An Object value carries the index of *)
(* its property table in the heap and its type, which never changes.       *)
(***************************************************************************)
VNull == [tag |-> "Null"]

VInteger(v) == [tag |-> "Integer", int |-> v]

\* An f64 is a finite number counted in halves, or one of the IEEE-754
\* specials that a division by 0.0 produces.
VFloat(h) == [tag |-> "Float", halves |-> h, class |-> "finite"]

VFloatSpecial(class) == [tag |-> "Float", halves |-> 0, class |-> class]

VNaN == VFloatSpecial("nan")

VBool(b) == [tag |-> "Bool", bool |-> b]

VString(s) == [tag |-> "String", str |-> s]

VList(id) == [tag |-> "List", list |-> id]

VCode(code) == [tag |-> "Code", code |-> code]

VFunction(code, outer_frame) == [tag |-> "Function", code |-> code, outer_frame |-> outer_frame]

VNative(func, params) == [tag |-> "Native", func |-> func, params |-> params]

VBound(callable, receiver) == [tag |-> "Bound", callable |-> callable, receiver |-> receiver]

VObject(obj, ty) == [tag |-> "Object", obj |-> obj, ty |-> ty]

ArgAny == [p |-> "Any"]

ArgExact(n) == [p |-> "Exact", n |-> n]

ArgMin(n) == [p |-> "Min", n |-> n]

ArgMax(n) == [p |-> "Max", n |-> n]

ArgRange(min, max) == [p |-> "Range", min |-> min, max |-> max]

\* impl From<Constant> for Value, and CodeBuilder::build.
RECURSIVE build(_)
RECURSIVE ConstantsToValues(_)
ConstantToValue(c) ==
    CASE c.c = "Null" -> VNull
      [] c.c = "Code" -> VCode(build(c.code))
      [] c.c = "Float" -> VFloat(c.halves)
      [] c.c = "String" -> VString(c.str)
      [] c.c = "Integer" -> VInteger(c.int)

ConstantsToValues(cs) ==
    IF cs = <<>> THEN <<>>
    ELSE <<ConstantToValue(Head(cs))>> \o ConstantsToValues(Tail(cs))

build(cb) ==
    [instructions |-> cb.instructions,
     constants |-> ConstantsToValues(cb.constants),
     names |-> cb.names,
     parameters |-> cb.parameters]

(***************************************************************************)
(* builtins/types.rs: the built-in types.  A type is named by its field of *)
(* BuiltinTypes; `slots` holds the protocol slots that are Some(..).       *)
(***************************************************************************)
SlotNames ==
    {"call", "add", "subtract", "multiply", "divide", "equals", "not_equals",
     "less_than", "greater_than", "less_than_or_equal", "greater_than_or_equal",
     "display", "get_property", "set_property", "get_subscript", "set_subscript"}

ArithmeticSlots ==
    {"add", "subtract", "divide", "multiply", "less_than", "greater_than",
     "less_than_or_equal", "greater_than_or_equal"}

\* The slots a type fills in itself (not those it inherits).
OwnSlots(ty) ==
    CASE ty = "object" -> {"display", "equals", "not_equals", "get_property", "set_property"}
      [] ty = "string" -> {"display", "add"}
      [] ty = "list" -> {"display", "get_subscript", "set_subscript", "add"}
      [] ty = "integer" -> {"display"} \cup ArithmeticSlots
      [] ty = "float" -> {"display"} \cup ArithmeticSlots
      [] OTHER -> {"display"}

SlotArity(slot) ==
    CASE slot = "display" -> 1
      [] slot \in {"set_property", "set_subscript"} -> 3
      [] OTHER -> 2

TypeNames ==
    {"object", "string", "list", "float", "bool", "integer", "frame", "native",
     "function", "code", "null", "ty"}

\* Type::root for object, Type::new(name, object_ty) for every other type.
BaseOf(ty) == IF ty = "object" THEN "" ELSE "object"

\* Interpreter.builtins: for every type the `call` slot (<<>> for None) and
\* the `properties` table.  The other slots are those of OwnSlots.
VARIABLE builtins

EmptyTable == [n \in {} |-> VNull]

\* Builtins::new(): no type has a `call` slot, and only list has a
\* property, `push`.
Builtins_new ==
    [call |-> [ty \in TypeNames |-> <<>>],
     properties |-> [ty \in TypeNames |->
                       IF ty = "list"
                       THEN [n \in {"push"} |->
                               VNative([ty |-> "list", slot |-> "push"], ArgExact(2))]
                       ELSE EmptyTable]]

\* ty.<slot>: <<>> for None, <<native>> for Some(native).
SlotOf(ty, slot) ==
    IF slot = "call" THEN builtins.call[ty]
    ELSE IF slot \in OwnSlots(ty)
    THEN <<VNative([ty |-> ty, slot |-> slot], ArgExact(SlotArity(slot)))>>
    ELSE <<>>

\* ty.properties.get(prop)
TypeProperty(ty, prop) ==
    IF prop \in DOMAIN builtins.properties[ty]
    THEN <<builtins.properties[ty][prop]>>
    ELSE <<>>

\* Value::ty
RECURSIVE TypeOf(_)
TypeOf(v) ==
    CASE v.tag = "Bound" -> TypeOf(v.callable)
      [] v.tag = "Object" -> v.ty
      [] v.tag = "List" -> "list"
      [] v.tag = "String" -> "string"
      [] v.tag = "Float" -> "float"
      [] v.tag = "Integer" -> "integer"
      [] v.tag = "Bool" -> "bool"
      [] v.tag = "Function" -> "function"
      [] v.tag = "Native" -> "native"
      [] v.tag = "Code" -> "code"
      [] v.tag = "Null" -> "null"

\* get_native_prop!: walk the base chain from `ty` to the first type whose
\* slot is Some; <<>> when the chain ends without one (the macro panics).
RECURSIVE WalkSlot(_, _)
WalkSlot(ty, slot) ==
    IF SlotOf(ty, slot) # <<>> THEN SlotOf(ty, slot)
    ELSE IF BaseOf(ty) # "" THEN WalkSlot(BaseOf(ty), slot)
    ELSE <<>>

get_native_prop(obj, slot) == WalkSlot(TypeOf(obj), slot)

\* builtins.rs: Builtins::resolve
PrintNative == VNative([ty |-> "", slot |-> "print"], ArgAny)

Builtins_resolve(name) == IF name = "print" THEN <<PrintNative>> ELSE <<>>

(***************************************************************************)
(* value.rs accessors and the native bodies of builtins/types.rs.          *)
(* A native body yields a NativeResult: `ok` is FALSE when the body        *)
(* panics; otherwise `value` is what it returns, `lists` the list heap     *)
(* after it and `out` the lines it printed.                                *)
(* Integers stay far from the i64 limits in the programs generated here,   *)
(* so integer arithmetic is modelled without wrap-around.                  *)
(***************************************************************************)
Ok(value, newlists, out) ==
    [ok |-> TRUE, error |-> "", value |-> value, lists |-> newlists, out |-> out]

Panic(error, heap) ==
    [ok |-> FALSE, error |-> error, value |-> VNull, lists |-> heap, out |-> <<>>]

\* Rust's `/` on i64 and `as i64` on f64 truncate toward zero.
TruncDiv(a, b) ==
    IF (a >= 0) = (b >= 0)
    THEN (IF a >= 0 THEN a ELSE -a) \div (IF b >= 0 THEN b ELSE -b)
    ELSE -((IF a >= 0 THEN a ELSE -a) \div (IF b >= 0 THEN b ELSE -b))

\* Value::as_int accepts Integer and Float (truncated).
IsNumber(v) == v.tag \in {"Integer", "Float"}

\* `f64 as i64` truncates and sends NaN to 0 (an infinity saturates; no
\* input converts one).
as_int(v) == IF v.tag = "Integer" THEN v.int ELSE TruncDiv(v.halves, 2)

\* Value::as_float.
as_float(v) == IF v.tag = "Integer" THEN VFloat(2 * v.int) ELSE v

\* The sign of an f64 as -1, 0 or 1; NaN has none.
FloatSign(x) ==
    CASE x.class = "inf" -> 1
      [] x.class = "-inf" -> -1
      [] x.halves > 0 -> 1
      [] x.halves < 0 -> -1
      [] OTHER -> 0

FloatInf(sign) == IF sign < 0 THEN VFloatSpecial("-inf") ELSE VFloatSpecial("inf")

FloatNeg(x) ==
    CASE x.class = "finite" -> VFloat(-x.halves)
      [] x.class = "nan" -> x
      [] OTHER -> FloatInf(-FloatSign(x))

\* f64 `<` and `==`: every comparison with NaN is false.
FloatLess(x, y) ==
    CASE x.class = "nan" \/ y.class = "nan" -> FALSE
      [] x.class = "finite" /\ y.class = "finite" -> x.halves < y.halves
      [] OTHER -> x.class # y.class /\ (x.class = "-inf" \/ y.class = "inf")

FloatEq(x, y) ==
    CASE x.class = "nan" \/ y.class = "nan" -> FALSE
      [] x.class = "finite" /\ y.class = "finite" -> x.halves = y.halves
      [] OTHER -> x.class = y.class

\* f64 `+`, `*` and `/`.
FloatAdd(x, y) ==
    CASE x.class = "nan" \/ y.class = "nan" -> VNaN
      [] x.class = "finite" /\ y.class = "finite" -> VFloat(x.halves + y.halves)
      [] x.class = "finite" -> y
      [] y.class = "finite" -> x
      [] OTHER -> IF x.class = y.class THEN x ELSE VNaN

FloatMul(x, y) ==
    CASE x.class = "nan" \/ y.class = "nan" -> VNaN
      [] x.class = "finite" /\ y.class = "finite" ->
            VFloat(TruncDiv(x.halves * y.halves, 2))
      [] OTHER -> IF FloatSign(x) * FloatSign(y) = 0 THEN VNaN
                  ELSE FloatInf(FloatSign(x) * FloatSign(y))

FloatDiv(x, y) ==
    CASE x.class = "nan" \/ y.class = "nan" -> VNaN
      [] x.class = "finite" /\ y.class = "finite" ->
            IF y.halves # 0 THEN VFloat(TruncDiv(2 * x.halves, y.halves))
            ELSE IF x.halves = 0 THEN VNaN
            ELSE FloatInf(FloatSign(x))
      [] x.class = "finite" -> VFloat(0)
      [] y.class = "finite" -> FloatInf(IF y.halves < 0 THEN -FloatSign(x) ELSE FloatSign(x))
      [] OTHER -> VNaN

\* Value::as_bool; only called on Integer, Float and Bool (else a panic).
HasTruth(v) == v.tag \in {"Integer", "Float", "Bool"}

as_bool(v) ==
    CASE v.tag = "Integer" -> v.int # 0
      [] v.tag = "Float" -> ~FloatEq(v, VFloat(0))
      [] v.tag = "Bool" -> v.bool

\* format!("{}", f64) for a float held in halves.
FloatToString(x) ==
    LET h == x.halves
        a == IF h >= 0 THEN h ELSE -h
        sign == IF h < 0 THEN "-" ELSE ""
    IN CASE x.class = "nan" -> "NaN"
         [] x.class = "inf" -> "inf"
         [] x.class = "-inf" -> "-inf"
         [] a % 2 = 0 -> sign \o ToString(a \div 2)
         [] OTHER -> sign \o ToString(a \div 2) \o ".5"

\* An equals that converts a number on the right to the Bool on the left,
\* but not a Bool on the right.
equals_left_bool_only(lhs, rhs) ==
    IF lhs.tag = rhs.tag THEN lhs = rhs
    ELSE /\ lhs.tag = "Bool"
         /\ rhs.tag \in {"Integer", "Float"}
         /\ lhs.bool = as_bool(rhs)

\* fn equals(lhs, rhs) of builtins/types.rs
equals(lhs, rhs) ==
    CASE lhs.tag = "Bool" /\ rhs.tag = "Bool" -> lhs.bool = rhs.bool
      [] lhs.tag = "Bool" /\ rhs.tag = "Integer" -> lhs.bool = (rhs.int # 0)
      [] lhs.tag = "Bool" /\ rhs.tag = "Float" -> lhs.bool = ~FloatEq(rhs, VFloat(0))
      [] lhs.tag = "Integer" /\ rhs.tag = "Integer" -> lhs.int = rhs.int
      [] lhs.tag = "Integer" /\ rhs.tag = "Float" -> FloatEq(as_float(lhs), rhs)
      [] lhs.tag = "Integer" /\ rhs.tag = "Bool" -> (lhs.int # 0) = rhs.bool
      [] lhs.tag = "Float" /\ rhs.tag = "Float" -> FloatEq(lhs, rhs)
      [] lhs.tag = "Float" /\ rhs.tag = "Integer" -> FloatEq(lhs, as_float(rhs))
      [] lhs.tag = "Float" /\ rhs.tag = "Bool" -> (~FloatEq(lhs, VFloat(0))) = rhs.bool
      [] lhs.tag = "String" /\ rhs.tag = "String" -> lhs.str = rhs.str
      [] lhs.tag = "Null" /\ rhs.tag = "Null" -> TRUE
      [] lhs.tag = "Native" /\ rhs.tag = "Native" -> lhs.func = rhs.func
      [] lhs.tag = "Object" /\ rhs.tag = "Object" -> lhs.obj = rhs.obj
      [] OTHER -> FALSE

\* fn get_property(interp, target, prop): the instance table of an Object
\* first, then the property tables of the type chain.
RECURSIVE WalkProperty(_, _)
WalkProperty(ty, prop) ==
    IF TypeProperty(ty, prop) # <<>> THEN TypeProperty(ty, prop)
    ELSE IF BaseOf(ty) # "" THEN WalkProperty(BaseOf(ty), prop)
    ELSE <<>>

\* get_property that asks the type chain before the instance table.
get_property_type_first(target, prop, heap) ==
    LET own == IF target.tag = "Object" /\ prop \in DOMAIN heap[target.obj]
               THEN <<heap[target.obj][prop]>>
               ELSE <<>>
        walk == WalkProperty(TypeOf(target), prop)
        hit == IF walk # <<>> THEN walk ELSE own
    IN
    IF hit = <<>> THEN Panic("object has no property", heap)
    ELSE IF hit[1].tag \in {"Function", "Native"}
         THEN Ok(VBound(hit[1], target), heap, <<>>)
         ELSE Ok(hit[1], heap, <<>>)

get_property(target, prop, heap) ==
    LET own == IF target.tag = "Object" /\ prop \in DOMAIN heap[target.obj]
               THEN <<heap[target.obj][prop]>>
               ELSE <<>>
        hit == IF own # <<>> THEN own ELSE WalkProperty(TypeOf(target), prop)
    IN
    IF hit = <<>> THEN Panic("object has no property", heap)
    ELSE IF hit[1].tag \in {"Function", "Native"}
         THEN Ok(VBound(hit[1], target), heap, <<>>)
         ELSE Ok(hit[1], heap, <<>>)

\* The integer_ty and float_ty operator slots on two numbers of the slot's
\* representation (a, b are i64 for integer, f64 for float).
Arith(ty, slot, a, b) ==
    IF ty = "integer"
    THEN CASE slot = "add" -> VInteger(a + b)
           [] slot = "subtract" -> VInteger(a - b)
           [] slot = "multiply" -> VInteger(a * b)
           [] slot = "divide" -> VInteger(TruncDiv(a, b))
           [] slot = "less_than" -> VBool(a < b)
           [] slot = "greater_than" -> VBool(a > b)
           [] slot = "less_than_or_equal" -> VBool(a <= b)
           [] slot = "greater_than_or_equal" -> VBool(a >= b)
    ELSE CASE slot = "add" -> FloatAdd(a, b)
           [] slot = "subtract" -> FloatAdd(a, FloatNeg(b))
           [] slot = "multiply" -> FloatMul(a, b)
           [] slot = "divide" -> FloatDiv(a, b)
           [] slot = "less_than" -> VBool(FloatLess(a, b))
           [] slot = "greater_than" -> VBool(FloatLess(b, a))
           [] slot = "less_than_or_equal" -> VBool(FloatLess(a, b) \/ FloatEq(a, b))
           [] slot = "greater_than_or_equal" -> VBool(FloatLess(b, a) \/ FloatEq(a, b))

\* The display slot of each type, through call_with_return: [ok, str].
RECURSIVE Display(_, _)
RECURSIVE DisplayItems(_, _, _)
DisplayItems(items, i, heap) ==
    IF i > Len(items) THEN [ok |-> TRUE, str |-> ""]
    ELSE LET d == Display(items[i], heap)
             rest == DisplayItems(items, i + 1, heap)
         IN IF ~d.ok \/ ~rest.ok THEN [ok |-> FALSE, str |-> ""]
            ELSE [ok |-> TRUE,
                  str |-> (IF i > 1 THEN ", " ELSE "") \o d.str \o rest.str]

Display(v, heap) ==
    LET ty == TypeOf(v) IN
    IF v.tag = "Object"
    THEN \* only the displays that ignore their argument accept an Object
         CASE ty = "object" -> [ok |-> TRUE, str |-> "<object>"]
           [] ty = "function" -> [ok |-> TRUE, str |-> "<function object>"]
           [] ty = "frame" -> [ok |-> TRUE, str |-> "<frame object>"]
           [] ty = "native" -> [ok |-> TRUE, str |-> "<native function>"]
           [] ty = "code" -> [ok |-> TRUE, str |-> "<code object>"]
           [] ty = "null" -> [ok |-> TRUE, str |-> "null"]
           [] ty = "ty" -> [ok |-> TRUE, str |-> "<type object>"]
           [] OTHER -> [ok |-> FALSE, str |-> ""]
    ELSE
    CASE ty = "string" -> [ok |-> TRUE, str |-> v.str]
      [] ty = "integer" -> [ok |-> TRUE, str |-> ToString(v.int)]
      [] ty = "float" -> [ok |-> TRUE, str |-> FloatToString(v)]
      [] ty = "bool" -> [ok |-> TRUE, str |-> IF v.bool THEN "true" ELSE "false"]
      [] ty = "null" -> [ok |-> TRUE, str |-> "null"]
      [] ty = "function" -> [ok |-> TRUE, str |-> "<function object>"]
      [] ty = "native" -> [ok |-> TRUE, str |-> "<native function>"]
      [] ty = "code" -> [ok |-> TRUE, str |-> "<code object>"]
      [] ty = "list" ->
            LET d == DisplayItems(heap[v.list], 1, heap) IN
            [ok |-> d.ok, str |-> "[" \o d.str \o "]"]

\* fn print of builtins.rs: one line, the displays joined by ", ".
print(args, heap) ==
    LET d == DisplayItems(args, 1, heap) IN
    IF d.ok THEN Ok(VNull, heap, <<d.str>>) ELSE Panic("expected string", heap)

\* A get that counts an index outside the list round from its start.
Vec_get_wrapping(items, index) ==
    IF Len(items) = 0 THEN 0 ELSE (index % Len(items)) + 1

\* Vec::get and Vec::get_mut at `index as usize`: the position of the element
\* in the sequence, 0 for None (a negative i64 is a usize beyond any length).
Vec_get(items, index) ==
    IF index >= 0 /\ index < Len(items) THEN index + 1 ELSE 0

\* An add that extends its first argument in place and returns it.
list_add_in_place(args, heap) ==
    Ok(args[1], [heap EXCEPT ![args[1].list] = @ \o heap[args[2].list]], <<>>)

\* list_ty add on two lists: a clone of the first, extended by the second,
\* in a new PtrMut.
list_add(args, heap) ==
    Ok(VList(Len(heap) + 1), Append(heap, heap[args[1].list] \o heap[args[2].list]), <<>>)

ListNative(slot, args, heap) ==
    IF args[1].tag # "List" THEN Panic("expected list", heap)
    ELSE LET id == args[1].list
             items == heap[id]
         IN CASE slot = "display" ->
                    LET d == Display(args[1], heap) IN
                    IF d.ok THEN Ok(VString(d.str), heap, <<>>)
                    ELSE Panic("expected string", heap)
              [] slot = "get_subscript" ->
                    IF ~IsNumber(args[2]) THEN Panic("expected number argument", heap)
                    ELSE IF Vec_get(items, as_int(args[2])) = 0
                         THEN Panic("index out of bounds", heap)
                         ELSE Ok(items[Vec_get(items, as_int(args[2]))], heap, <<>>)
              [] slot = "set_subscript" ->
                    IF ~IsNumber(args[2]) THEN Panic("expected number argument", heap)
                    ELSE IF Vec_get(items, as_int(args[2])) = 0
                         THEN Panic("index out of bounds", heap)
                         ELSE Ok(VNull,
                                 [heap EXCEPT ![id][Vec_get(items, as_int(args[2]))] = args[3]],
                                 <<>>)
              [] slot = "add" ->
                    IF args[2].tag # "List" THEN Panic("expected list", heap)
                    ELSE list_add(args, heap)
              [] slot = "push" ->
                    Ok(VNull, [heap EXCEPT ![id] = Append(@, args[2])], <<>>)

\* Number slots that convert their first argument as they do the second.
NumberNative_coercing(ty, slot, args, heap) ==
    IF slot = "display"
    THEN Ok(VString(IF args[1].tag = "Integer" THEN ToString(args[1].int)
                    ELSE FloatToString(args[1])), heap, <<>>)
    ELSE IF ~IsNumber(args[1]) \/ ~IsNumber(args[2])
    THEN Panic("expected number argument", heap)
    ELSE IF ty = "integer"
    THEN IF slot = "divide" /\ as_int(args[2]) = 0
         THEN Panic("attempt to divide by zero", heap)
         ELSE Ok(Arith(ty, slot, as_int(args[1]), as_int(args[2])), heap, <<>>)
    ELSE Ok(Arith(ty, slot, as_float(args[1]), as_float(args[2])), heap, <<>>)

\* The integer_ty and float_ty slots: the first argument through Value::int
\* resp. Value::float, the second through as_int resp. as_float.
NumberNative(ty, slot, args, heap) ==
    IF slot = "display"
    THEN IF ty = "integer" /\ args[1].tag = "Integer"
         THEN Ok(VString(ToString(args[1].int)), heap, <<>>)
         ELSE IF ty = "float" /\ args[1].tag = "Float"
         THEN Ok(VString(FloatToString(args[1])), heap, <<>>)
         ELSE Panic("expected int", heap)
    ELSE IF ty = "integer"
    THEN IF args[1].tag # "Integer" THEN Panic("expected int", heap)
         ELSE IF ~IsNumber(args[2]) THEN Panic("expected number argument", heap)
         ELSE IF slot = "divide" /\ as_int(args[2]) = 0
         THEN Panic("attempt to divide by zero", heap)
         ELSE Ok(Arith(ty, slot, args[1].int, as_int(args[2])), heap, <<>>)
    ELSE IF args[1].tag # "Float" THEN Panic("expected int", heap)
         ELSE IF ~IsNumber(args[2]) THEN Panic("expected number", heap)
         ELSE Ok(Arith(ty, slot, args[1], as_float(args[2])), heap, <<>>)

ObjectNative(slot, args, heap) ==
    CASE slot = "display" -> Ok(VString("<object>"), heap, <<>>)
      [] slot = "equals" -> Ok(VBool(equals(args[1], args[2])), heap, <<>>)
      [] slot = "not_equals" -> Ok(VBool(~equals(args[1], args[2])), heap, <<>>)
      [] slot = "get_property" ->
            IF args[2].tag # "String" THEN Panic("expected string", heap)
            ELSE get_property(args[1], args[2].str, heap)
      [] slot = "set_property" ->
            IF args[2].tag # "String" THEN Panic("expected string", heap)
            ELSE IF args[1].tag # "Object"
            THEN Panic("does not support $set_property", heap)
            ELSE Ok(VNull,
                    [heap EXCEPT ![args[1].obj] =
                        [n \in (DOMAIN @) \cup {args[2].str} |->
                            IF n = args[2].str THEN args[3] ELSE @[n]]],
                    <<>>)

\* The body of the native `func` applied to `args` (arity already checked).
NativeBody(func, args, heap) ==
    CASE func.slot = "print" -> print(args, heap)
      [] func.ty = "list" -> ListNative(func.slot, args, heap)
      [] func.ty \in {"integer", "float"} -> NumberNative(func.ty, func.slot, args, heap)
      [] func.ty = "object" -> ObjectNative(func.slot, args, heap)
      [] func.ty = "string" /\ func.slot = "display" -> Ok(args[1], heap, <<>>)
      [] func.ty = "string" /\ func.slot = "add" ->
            IF args[1].tag # "String" \/ args[2].tag # "String"
            THEN Panic("expected string", heap)
            ELSE Ok(VString(args[1].str \o args[2].str), heap, <<>>)
      [] func.ty = "bool" ->
            IF args[1].tag = "Bool"
            THEN Ok(VString(IF args[1].bool THEN "true" ELSE "false"), heap, <<>>)
            ELSE Panic("expected bool", heap)
      [] func.ty = "function" -> Ok(VString("<function object>"), heap, <<>>)
      [] func.ty = "frame" -> Ok(VString("<frame object>"), heap, <<>>)
      [] func.ty = "native" -> Ok(VString("<native function>"), heap, <<>>)
      [] func.ty = "code" -> Ok(VString("<code object>"), heap, <<>>)
      [] func.ty = "null" -> Ok(VString("null"), heap, <<>>)
      [] func.ty = "ty" -> Ok(VString("<type object>"), heap, <<>>)

(***************************************************************************)
(* The state: main.rs's locals and the Interpreter.                        *)
(***************************************************************************)
VARIABLES
    module,        \* the parsed Module's body (the input)
    code_builder,  \* main's CodeBuilder
    status,        \* "compile", "compiled", "run", "exit" or "panic"
    error,         \* the panic message once status = "panic"
    exit_code,     \* the process exit code once status = "exit", else -1
    frames,        \* the heap of Frame cells
    frame,         \* Interpreter.frame: the active frame
    next_action,   \* Interpreter.next_action
    lists,         \* the heap of PtrMut cells: list items, Object property tables
    stdout,        \* the lines printed so far
    fetched,       \* history: per frame, the addresses it has executed
    call_base,     \* history: per frame, its caller's stack below the Call's operands
    returned,      \* history: the frames that have executed Return
    call_with_return  \* the call_with_return in progress: phase, callee, result

vars ==
    <<call_with_return, builtins, module,
      code_builder, status, error, exit_code, frames, frame, next_action,
      lists, stdout, fetched, call_base, returned>>

NoAction == [a |-> "None"]

ActionCall(f) == [a |-> "Call", frame |-> f]

ActionReturn(v) == [a |-> "Return", value |-> v]

ActionReturnNative(v) == [a |-> "ReturnNative", value |-> v]

EmptyScope == [n \in {} |-> VNull]

\* Frame::new
Frame_new(code, calling_frame, outer_frame) ==
    [instruction_count |-> 0,
     calling_frame |-> calling_frame,
     outer_frame |-> outer_frame,
     scope |-> EmptyScope,
     stack |-> <<>>,
     code |-> code]

\* Frame::declare (HashMap::insert)
Frame_declare(f, name, value) ==
    [f EXCEPT !.scope = [n \in (DOMAIN @) \cup {name} |-> IF n = name THEN value ELSE @[n]]]

Frame_contains_variable(f, name) == name \in DOMAIN f.scope

RECURSIVE DeclareAll(_, _, _)
DeclareAll(f, names, args) ==
    IF names = <<>> \/ args = <<>> THEN f
    ELSE DeclareAll(Frame_declare(f, Head(names), Head(args)), Tail(names), Tail(args))

\* The outcome of Interpreter::call_value.
CallPanic(msg) ==
    [panic |-> TRUE, error |-> msg, action |-> NoAction, newframe |-> <<>>,
     lists |-> <<>>, out |-> <<>>]

\* The arity check with Min and Max taken as strict bounds.
ArityOk_strict(params, n) ==
    CASE params.p = "Any" -> TRUE
      [] params.p = "Exact" -> params.n = n
      [] params.p = "Min" -> n > params.n
      [] params.p = "Max" -> n < params.n
      [] params.p = "Range" -> n >= params.min /\ n <= params.max

ArityOk(params, n) ==
    CASE params.p = "Any" -> TRUE
      [] params.p = "Exact" -> params.n = n
      [] params.p = "Min" -> n >= params.n
      [] params.p = "Max" -> n <= params.n
      [] params.p = "Range" -> n >= params.min /\ n <= params.max

\* The Function arm without its arity check.
call_function_unchecked(func, args, active, heap, nframes) ==
    LET code == func.code IN
    IF code.parameters > Len(code.names)
    THEN CallPanic("range end index out of range")
    ELSE [panic |-> FALSE, error |-> "",
          action |-> ActionCall(nframes + 1),
          newframe |-> <<DeclareAll(Frame_new(code, active, func.outer_frame),
                                    SubSeq(code.names, 1, code.parameters), args)>>,
          lists |-> heap, out |-> <<>>]

\* The Function arm of call_value: Function::as_frame, Frame::parameters,
\* the arity check and the binding of the parameters.
call_function(func, args, active, heap, nframes) ==
    LET code == func.code IN
    IF code.parameters > Len(code.names)
    THEN CallPanic("range end index out of range")
    ELSE IF code.parameters # Len(args)
    THEN CallPanic("expected args")
    ELSE [panic |-> FALSE, error |-> "",
          action |-> ActionCall(nframes + 1),
          newframe |-> <<DeclareAll(Frame_new(code, active, func.outer_frame),
                                    SubSeq(code.names, 1, code.parameters), args)>>,
          lists |-> heap, out |-> <<>>]

\* The Native arm of call_value.
call_native(value, args, heap) ==
    IF ~ArityOk(value.params, Len(args)) THEN CallPanic("expected args")
    ELSE LET r == NativeBody(value.func, args, heap) IN
         IF ~r.ok THEN CallPanic(r.error)
         ELSE [panic |-> FALSE, error |-> "", action |-> ActionReturnNative(r.value),
               newframe |-> <<>>, lists |-> r.lists, out |-> r.out]

\* Interpreter::call_value(value, args) with `active` the active frame,
\* `heap` the lists and `nframes` the number of frames allocated so far.
RECURSIVE call_value(_, _, _, _, _)
\* call_value whose Bound arm puts the receiver after the arguments.
call_value_receiver_last(value, args, active, heap, nframes) ==
    CASE value.tag = "Function" -> call_function(value, args, active, heap, nframes)
      [] value.tag = "Native" -> call_native(value, args, heap)
      [] value.tag = "Bound" ->
            call_value(value.callable, args \o <<value.receiver>>, active, heap, nframes)
      [] OTHER ->
            LET call == SlotOf(TypeOf(value), "call") IN
            IF call = <<>> THEN CallPanic("does not support $call")
            ELSE call_value(call[1], <<value>> \o args, active, heap, nframes)

call_value(value, args, active, heap, nframes) ==
    CASE value.tag = "Function" -> call_function(value, args, active, heap, nframes)
      [] value.tag = "Native" -> call_native(value, args, heap)
      [] value.tag = "Bound" ->
            call_value(value.callable, <<value.receiver>> \o args, active, heap, nframes)
      [] OTHER ->
            LET call == SlotOf(TypeOf(value), "call") IN
            IF call = <<>> THEN CallPanic("does not support $call")
            ELSE call_value(call[1], <<value>> \o args, active, heap, nframes)

(***************************************************************************)
(* Steps of the interpreter                                                *)
(***************************************************************************)
Cur == frames[frame]

Pc == Cur.instruction_count

Fetchable ==
    /\ status = "run"
    /\ next_action = NoAction
    /\ Pc < Len(Cur.code.instructions)

\* Frame::instruction
CurInstruction == Cur.code.instructions[Pc + 1]

Fetching(op) == Fetchable /\ CurInstruction.op = op

\* Frame::name and Frame::constant of the active frame
CurName(namei) == Cur.code.names[namei + 1]

CurConstant(consi) == Cur.code.constants[consi + 1]

\* The stack is a Vec: its top is the last element.
Top(stack, k) == stack[Len(stack) - k]

Drop(stack, k) == SubSeq(stack, 1, Len(stack) - k)

\* A panic aborts the process.
Fail(msg) ==
    /\ status' = "panic"
    /\ error' = msg
    /\ UNCHANGED <<call_with_return, builtins, module,
                   code_builder, exit_code, frames, frame, next_action,
                   lists, stdout, fetched, call_base, returned>>

\* The instruction's handler has left `newframes`; execute() then advances the
\* active frame's instruction count by one.
Commit(newframes, newlists, newaction, out) ==
    /\ frames' = [newframes EXCEPT ![frame].instruction_count = @ + 1]
    /\ lists' = newlists
    /\ next_action' = newaction
    /\ stdout' = stdout \o out
    /\ fetched' = [i \in 1..Len(newframes) |->
                     IF i > Len(fetched) THEN {}
                     ELSE IF i = frame THEN fetched[i] \cup {Pc} ELSE fetched[i]]
    /\ call_base' = IF Len(newframes) > Len(frames)
                    THEN Append(call_base, Drop(Cur.stack, CurInstruction.arg + 1))
                    ELSE call_base
    /\ returned' = IF newaction.a = "Return" THEN returned \cup {frame} ELSE returned
    /\ UNCHANGED <<call_with_return, builtins, module,
                   code_builder, status, error, exit_code, frame>>

\* The active frame with `stack` as its operand stack.
WithStack(stack) == [frames EXCEPT ![frame].stack = stack]

\* call_value's outcome takes effect; `stack` is the active frame's stack
\* after the handler's pops.
Dispatch(r, stack) ==
    IF r.panic THEN Fail(r.error)
    ELSE Commit(WithStack(stack) \o r.newframe, r.lists, r.action, r.out)

\* pop_pair with its components the other way round.
pop_pair_swapped(stack) == <<Top(stack, 1), Top(stack, 0)>>

\* Frame::pop_pair: (self.pop(), self.pop()), the first component popped first.
pop_pair(stack) == <<Top(stack, 0), Top(stack, 1)>>

\* Interpreter::resolve_name from frame `start`: the first frame on the
\* outer_frame chain whose scope contains `name`, 0 for None.
RECURSIVE resolve_name(_, _, _)
\* resolve_name walking the calling_frame links instead.
resolve_name_caller_chain(fs, start, name) ==
    IF start = 0 THEN 0
    ELSE IF Frame_contains_variable(fs[start], name) THEN start
    ELSE resolve_name(fs, fs[start].calling_frame, name)

resolve_name(fs, start, name) ==
    IF start = 0 THEN 0
    ELSE IF Frame_contains_variable(fs[start], name) THEN start
    ELSE resolve_name(fs, fs[start].outer_frame, name)

\* A function value that holds the frame enclosing the active one.
Function_new_enclosing(code, active) == VFunction(code, frames[active].outer_frame)

\* Function::new(code, self.frame.clone()) in create_function
Function_new(code, active) == VFunction(code, active)

\* The slot an operator instruction asks for.
SlotOfInstruction(op) ==
    CASE op = "Add" -> "add"
      [] op = "Subtract" -> "subtract"
      [] op = "Multiply" -> "multiply"
      [] op = "Divide" -> "divide"
      [] op = "Equals" -> "equals"
      [] op = "NotEquals" -> "not_equals"
      [] op = "LessThan" -> "less_than"
      [] op = "GreaterThan" -> "greater_than"
      [] op = "LessThanOrEqual" -> "less_than_or_equal"
      [] op = "GreaterThanOrEqual" -> "greater_than_or_equal"

\* The slot looked up on the type chain of lhs.
operation_slot_lhs(lhs, rhs, slot) == get_native_prop(lhs, slot)

\* operation!: the slot is looked up on the type chain of rhs.
operation_slot(lhs, rhs, slot) == get_native_prop(rhs, slot)

\* main.rs: compile the module.
CompileModule ==
    /\ status = "compile"
    /\ code_builder' = compile_module(code_builder, module)
    /\ status' = "compiled"
    /\ UNCHANGED <<call_with_return, builtins, module,
                   error, exit_code, frames, frame, next_action, lists,
                   stdout, fetched, call_base, returned>>

\* main.rs: build the Code, make the root frame and the interpreter.
Start ==
    /\ status = "compiled"
    /\ frames' = <<Frame_new(build(code_builder), 0, 0)>>
    /\ frame' = 1
    /\ status' = "run"
    /\ fetched' = <<{}>>
    /\ call_base' = <<<<>>>>
    /\ UNCHANGED <<call_with_return, builtins, module,
                   code_builder, error, exit_code, next_action, lists,
                   stdout, returned>>

\* run_frame takes Action::Call: the new frame becomes the active frame.
TakeCall ==
    /\ status = "run"
    /\ next_action.a = "Call"
    /\ frame' = next_action.frame
    /\ next_action' = NoAction
    /\ UNCHANGED <<call_with_return, builtins, module,
                   code_builder, status, error, exit_code, frames, lists,
                   stdout, fetched, call_base, returned>>

\* run_frame takes Action::ReturnNative and returns the value; run pushes it
\* on the active frame.
TakeReturnNative ==
    /\ status = "run"
    /\ next_action.a = "ReturnNative"
    /\ frames' = WithStack(Append(Cur.stack, next_action.value))
    /\ next_action' = NoAction
    /\ UNCHANGED <<call_with_return, builtins, module,
                   code_builder, status, error, exit_code, frame, lists,
                   stdout, fetched, call_base, returned>>

\* Returning along the outer_frame link.
ReturnTarget_enclosing(f) == f.outer_frame

\* The frame run_frame switches to on Action::Return.
ReturnTarget(f) == f.calling_frame

\* run_frame takes Action::Return: the caller becomes the active frame and
\* run pushes the value on it; with no caller the process exits with 0.
TakeReturn ==
    /\ status = "run"
    /\ next_action.a = "Return"
    /\ IF ReturnTarget(Cur) # 0
       THEN /\ frame' = ReturnTarget(Cur)
            /\ frames' = [frames EXCEPT ![ReturnTarget(Cur)].stack =
                                            Append(@, next_action.value)]
            /\ next_action' = NoAction
            /\ UNCHANGED <<status, exit_code>>
       ELSE /\ status' = "exit"
            /\ exit_code' = 0
            /\ UNCHANGED <<frame, frames, next_action>>
    /\ UNCHANGED <<call_with_return, builtins, module,
                   code_builder, error, lists, stdout, fetched, call_base,
                   returned>>

pop ==
    /\ Fetching("Pop")
    /\ IF Len(Cur.stack) < 1 THEN Fail("stack corruption")
       ELSE Commit(WithStack(Drop(Cur.stack, 1)), lists, NoAction, <<>>)

\* Call(argc) that pops the arguments but leaves the callable on the stack.
call_keeps_callable ==
    /\ Fetching("Call")
    /\ LET argc == CurInstruction.arg IN
       IF Len(Cur.stack) < argc + 1 THEN Fail("stack corruption")
       ELSE LET func == Top(Cur.stack, 0)
                args == [i \in 1..argc |-> Top(Cur.stack, i)]
            IN Dispatch(call_value(func, args, frame, lists, Len(frames)),
                        Append(Drop(Cur.stack, argc + 1), func))

\* Call(argc) that takes the deepest argument as argument 0.
call_last_argument_first ==
    /\ Fetching("Call")
    /\ LET argc == CurInstruction.arg IN
       IF Len(Cur.stack) < argc + 1 THEN Fail("stack corruption")
       ELSE LET func == Top(Cur.stack, 0)
                args == [i \in 1..argc |-> Top(Cur.stack, argc + 1 - i)]
            IN Dispatch(call_value(func, args, frame, lists, Len(frames)),
                        Drop(Cur.stack, argc + 1))

call ==
    /\ Fetching("Call")
    /\ LET argc == CurInstruction.arg IN
       IF Len(Cur.stack) < argc + 1 THEN Fail("stack corruption")
       ELSE LET func == Top(Cur.stack, 0)
                args == [i \in 1..argc |-> Top(Cur.stack, i)]
            IN Dispatch(call_value(func, args, frame, lists, Len(frames)),
                        Drop(Cur.stack, argc + 1))

return_statement ==
    /\ Fetching("Return")
    /\ IF Len(Cur.stack) < 1 THEN Fail("stack corruption")
       ELSE Commit(WithStack(Drop(Cur.stack, 1)), lists,
                   ActionReturn(Top(Cur.stack, 0)), <<>>)

\* create_function that hands the function a copy of the active frame.
create_function_by_copy ==
    /\ Fetching("CreateFunction")
    /\ IF Len(Cur.stack) < 1 THEN Fail("stack corruption")
       ELSE IF Top(Cur.stack, 0).tag # "Code"
       THEN Fail("invalid value, expected code object")
       ELSE Commit(WithStack(Append(Drop(Cur.stack, 1),
                                    Function_new(Top(Cur.stack, 0).code, Len(frames) + 1)))
                       \o <<Cur>>,
                   lists, NoAction, <<>>)

create_function ==
    /\ Fetching("CreateFunction")
    /\ IF Len(Cur.stack) < 1 THEN Fail("stack corruption")
       ELSE IF Top(Cur.stack, 0).tag # "Code"
       THEN Fail("invalid value, expected code object")
       ELSE Commit(WithStack(Append(Drop(Cur.stack, 1),
                                    Function_new(Top(Cur.stack, 0).code, frame))),
                   lists, NoAction, <<>>)

load_constant ==
    /\ Fetching("LoadConstant")
    /\ Commit(WithStack(Append(Cur.stack, CurConstant(CurInstruction.arg))),
              lists, NoAction, <<>>)

\* LoadVariable that asks the frames before the built-ins.
load_variable_frames_first ==
    /\ Fetching("LoadVariable")
    /\ LET name == CurName(CurInstruction.arg)
           builtin == Builtins_resolve(name)
           owner == resolve_name(frames, frame, name)
       IN IF owner # 0
          THEN Commit(WithStack(Append(Cur.stack, frames[owner].scope[name])),
                      lists, NoAction, <<>>)
          ELSE IF builtin # <<>>
          THEN Commit(WithStack(Append(Cur.stack, builtin[1])), lists, NoAction, <<>>)
          ELSE Fail("couln't resolve variable")

load_variable ==
    /\ Fetching("LoadVariable")
    /\ LET name == CurName(CurInstruction.arg)
           builtin == Builtins_resolve(name)
           owner == resolve_name(frames, frame, name)
       IN IF builtin # <<>>
          THEN Commit(WithStack(Append(Cur.stack, builtin[1])), lists, NoAction, <<>>)
          ELSE IF owner # 0
          THEN Commit(WithStack(Append(Cur.stack, frames[owner].scope[name])),
                      lists, NoAction, <<>>)
          ELSE Fail("couln't resolve variable")

\* StoreVariable that binds the name in the active frame, bound or not.
store_variable_declares_locally ==
    /\ Fetching("StoreVariable")
    /\ IF Len(Cur.stack) < 1 THEN Fail("stack corruption")
       ELSE Commit([frames EXCEPT ![frame] =
                        Frame_declare([Cur EXCEPT !.stack = Drop(Cur.stack, 1)],
                                      CurName(CurInstruction.arg), Top(Cur.stack, 0))],
                   lists, NoAction, <<>>)

store_variable ==
    /\ Fetching("StoreVariable")
    /\ LET name == CurName(CurInstruction.arg)
           owner == resolve_name(frames, frame, name)
       IN IF owner = 0 THEN Fail("couln't resolve variable")
          ELSE IF Len(Cur.stack) < 1 THEN Fail("stack corruption")
          ELSE Commit([WithStack(Drop(Cur.stack, 1)) EXCEPT
                           ![owner].scope[name] = Top(Cur.stack, 0)],
                      lists, NoAction, <<>>)

\* Declare that rebinds the name where the enclosing chain already binds it.
declare_in_binder ==
    /\ Fetching("Declare")
    /\ IF Len(Cur.stack) < 1 THEN Fail("stack corruption")
       ELSE LET name == CurName(CurInstruction.arg)
                owner == resolve_name(frames, frame, name)
                target == IF owner = 0 THEN frame ELSE owner
            IN Commit([WithStack(Drop(Cur.stack, 1)) EXCEPT
                           ![target] = Frame_declare(@, name, Top(Cur.stack, 0))],
                      lists, NoAction, <<>>)

declare ==
    /\ Fetching("Declare")
    /\ IF Len(Cur.stack) < 1 THEN Fail("stack corruption")
       ELSE Commit([frames EXCEPT ![frame] =
                        Frame_declare([Cur EXCEPT !.stack = Drop(Cur.stack, 1)],
                                      CurName(CurInstruction.arg), Top(Cur.stack, 0))],
                   lists, NoAction, <<>>)

\* create_list that keeps the operands in their stack order, bottom first.
create_list_stack_order ==
    /\ Fetching("CreateList")
    /\ LET len == CurInstruction.arg IN
       IF Len(Cur.stack) < len THEN Fail("stack corruption")
       ELSE Commit(WithStack(Append(Drop(Cur.stack, len), VList(Len(lists) + 1))),
                   Append(lists, [i \in 1..len |-> Top(Cur.stack, len - i)]),
                   NoAction, <<>>)

create_list ==
    /\ Fetching("CreateList")
    /\ LET len == CurInstruction.arg IN
       IF Len(Cur.stack) < len THEN Fail("stack corruption")
       ELSE Commit(WithStack(Append(Drop(Cur.stack, len), VList(Len(lists) + 1))),
                   Append(lists, [i \in 1..len |-> Top(Cur.stack, i - 1)]),
                   NoAction, <<>>)

exit ==
    /\ Fetching("Exit")
    /\ status' = "exit"
    /\ exit_code' = CurInstruction.arg
    /\ fetched' = [fetched EXCEPT ![frame] = @ \cup {Pc}]
    /\ UNCHANGED <<call_with_return, builtins, module,
                   code_builder, error, frames, frame, next_action, lists,
                   stdout, call_base, returned>>

jump ==
    /\ Fetching("Jump")
    /\ Commit([frames EXCEPT ![frame].instruction_count = CurInstruction.arg],
              lists, NoAction, <<>>)

\* A JumpFalse that falls through on every operand without a truth value.
jump_false_lenient ==
    /\ Fetching("JumpFalse")
    /\ IF Len(Cur.stack) < 1 THEN Fail("stack corruption")
       ELSE IF HasTruth(Top(Cur.stack, 0)) /\ ~as_bool(Top(Cur.stack, 0))
       THEN Commit([WithStack(Drop(Cur.stack, 1)) EXCEPT
                        ![frame].instruction_count = CurInstruction.arg],
                   lists, NoAction, <<>>)
       ELSE Commit(WithStack(Drop(Cur.stack, 1)), lists, NoAction, <<>>)

jump_false ==
    /\ Fetching("JumpFalse")
    /\ IF Len(Cur.stack) < 1 THEN Fail("stack corruption")
       ELSE IF ~HasTruth(Top(Cur.stack, 0)) THEN Fail("expected bool")
       ELSE IF ~as_bool(Top(Cur.stack, 0))
       THEN Commit([WithStack(Drop(Cur.stack, 1)) EXCEPT
                        ![frame].instruction_count = CurInstruction.arg],
                   lists, NoAction, <<>>)
       ELSE Commit(WithStack(Drop(Cur.stack, 1)), lists, NoAction, <<>>)

\* operation!(add) .. operation!(less_than_or_equal)
operation ==
    /\ Fetchable
    /\ CurInstruction.op \in Operators
    /\ IF Len(Cur.stack) < 2 THEN Fail("stack corruption")
       ELSE LET pair == pop_pair(Cur.stack)
                lhs == pair[1]
                rhs == pair[2]
                prop == operation_slot(lhs, rhs, SlotOfInstruction(CurInstruction.op))
            IN IF prop = <<>> THEN Fail("does not support")
               ELSE Dispatch(call_value(prop[1], <<lhs, rhs>>, frame, lists, Len(frames)),
                             Drop(Cur.stack, 2))

\* store_subscript that pops the value first and the object last.
store_subscript_value_first ==
    /\ Fetching("StoreSubscript")
    /\ IF Len(Cur.stack) < 3 THEN Fail("stack corruption")
       ELSE LET value == Top(Cur.stack, 0)
                subs == Top(Cur.stack, 1)
                obj == Top(Cur.stack, 2)
                set_subscript == get_native_prop(obj, "set_subscript")
            IN IF set_subscript = <<>> THEN Fail("does not support")
               ELSE Dispatch(call_value(set_subscript[1], <<obj, subs, value>>,
                                        frame, lists, Len(frames)),
                             Drop(Cur.stack, 3))

store_subscript ==
    /\ Fetching("StoreSubscript")
    /\ IF Len(Cur.stack) < 3 THEN Fail("stack corruption")
       ELSE LET obj == Top(Cur.stack, 0)
                subs == Top(Cur.stack, 1)
                value == Top(Cur.stack, 2)
                set_subscript == get_native_prop(obj, "set_subscript")
            IN IF set_subscript = <<>> THEN Fail("does not support")
               ELSE Dispatch(call_value(set_subscript[1], <<obj, subs, value>>,
                                        frame, lists, Len(frames)),
                             Drop(Cur.stack, 3))

load_subscript ==
    /\ Fetching("LoadSubscript")
    /\ IF Len(Cur.stack) < 2 THEN Fail("stack corruption")
       ELSE LET obj == Top(Cur.stack, 0)
                subs == Top(Cur.stack, 1)
                get_subscript == get_native_prop(obj, "get_subscript")
            IN IF get_subscript = <<>> THEN Fail("does not support")
               ELSE Dispatch(call_value(get_subscript[1], <<obj, subs>>,
                                        frame, lists, Len(frames)),
                             Drop(Cur.stack, 2))

store_property ==
    /\ Fetching("StoreProperty")
    /\ IF Len(Cur.stack) < 2 THEN Fail("stack corruption")
       ELSE LET obj == Top(Cur.stack, 0)
                prop == CurName(CurInstruction.arg)
                value == Top(Cur.stack, 1)
                set_property == get_native_prop(obj, "set_property")
            IN IF set_property = <<>> THEN Fail("does not support")
               ELSE Dispatch(call_value(set_property[1], <<obj, VString(prop), value>>,
                                        frame, lists, Len(frames)),
                             Drop(Cur.stack, 2))

load_property ==
    /\ Fetching("LoadProperty")
    /\ IF Len(Cur.stack) < 1 THEN Fail("stack corruption")
       ELSE LET obj == Top(Cur.stack, 0)
                prop == CurName(CurInstruction.arg)
                get_prop == get_native_prop(obj, "get_property")
            IN IF get_prop = <<>> THEN Fail("does not support")
               ELSE Dispatch(call_value(get_prop[1], <<obj, VString(prop)>>,
                                        frame, lists, Len(frames)),
                             Drop(Cur.stack, 1))

(***************************************************************************)
(* The input modules.  The parser is outside the model: a module is any    *)
(* AST the compiler accepts.  The families below are parameterised by the  *)
(* integer literals 0..MaxInt.                                             *)
(***************************************************************************)
Vals == 0..MaxInt

PrintCall(expr) == StmtExpression(FunctionCall(Identifier("print"), <<expr>>))

Let(ident, expr) == Declaration(ident, <<expr>>)

Call0(name) == FunctionCall(Identifier(name), <<>>)

\* The operands of the operator family: integers, the floats 1.0 and 2.0,
\* a string, a list and a Bool (the result of a comparison).
Operands ==
    {Integer(v) : v \in Vals}
        \cup {Float(2), Float(4), String("a"), List(<<Integer(1)>>),
              Operation(Integer(0), "LessThan", Integer(1))}

\* print(L op R);
OperatorModules ==
    {<<PrintCall(Operation(l, op, r))>> : l \in Operands, r \in Operands, op \in Operators}

\* Statements that leave the scope alone, used as bodies of if/else.
Plain(k) == StmtExpression(Integer(k))

PlainBodies == {<<>>, <<Plain(1)>>, <<Plain(1), PrintCall(Integer(2))>>}

IfLeaves == {If(Integer(c), b, e) : c \in Vals, b \in PlainBodies, e \in PlainBodies}

NestedBodies ==
    UNION {{<<i>>, <<Plain(1), i>>, <<i, Plain(2)>>} :
             i \in {If(Integer(c), b, e) : c \in {0, 1}, b \in PlainBodies, e \in PlainBodies}}

IfNests ==
    {If(Integer(c), b, e) : c \in Vals, b \in NestedBodies, e \in PlainBodies}
        \cup {If(Integer(c), b, e) : c \in Vals, b \in PlainBodies, e \in NestedBodies}
        \cup {If(Integer(c), <<If(Integer(c1), <<Plain(1)>>, e1)>>,
                             <<If(Integer(c2), b2, <<Plain(2)>>)>>) :
                c \in Vals, c1 \in {0, 1}, c2 \in {0, 1},
                e1 \in {<<>>, <<Plain(1)>>}, b2 \in {<<>>, <<Plain(2)>>}}

\* if .. else .. at module level, followed by one more statement or by nothing.
IfModules ==
    {<<i, PrintCall(Integer(0))>> : i \in IfLeaves \cup IfNests}
        \cup {<<i>> : i \in IfLeaves}

\* The same inside a function body, also with returns in the branches.
ReturnBodies == {<<>>, <<StmtReturn(Integer(1))>>, <<Plain(1), StmtReturn(Integer(2))>>}

IfFunctionModules ==
    {<<Let("f", Function(<<>>, <<i>>)), PrintCall(Call0("f"))>> :
        i \in IfLeaves \cup {If(Integer(c), b, e) :
                                c \in Vals, b \in ReturnBodies, e \in ReturnBodies}}

\* let xs = [0]; let f = fn() { <statements>; return 1; }; print(2 + f());
XsAt(k) == Subscript(Identifier("xs"), Integer(k))

BodyStatements ==
    {Plain(3),
     Let("a", Integer(2)),
     Declaration("b", <<>>),
     PrintCall(Integer(1)),
     Assignment(TargetIdentifier("xs"), Integer(5)),
     Assignment(TargetSubscript(Identifier("xs"), Integer(0)), Integer(1)),
     Assignment(TargetProperty(Identifier("xs"), "p"), Integer(1)),
     StmtExpression(FunctionCall(Property(Identifier("xs"), "push"), <<Integer(1)>>)),
     PrintCall(XsAt(0)),
     If(XsAt(0), <<Assignment(TargetSubscript(Identifier("xs"), Integer(0)), Integer(0))>>,
                 <<Plain(4)>>)}

BodySequences ==
    {<<>>} \cup {<<s1>> : s1 \in BodyStatements}
           \cup {<<s1, s2>> : s1 \in BodyStatements, s2 \in BodyStatements}

FunctionBodyModules ==
    {<<Let("xs", List(<<Integer(0)>>)),
       Let("f", Function(<<>>, body \o <<StmtReturn(Integer(1))>>)),
       PrintCall(Operation(Call0("f"), "Add", Integer(2)))>> : body \in BodySequences}

\* let f = fn(<params>) { return <x>; }; print(f(1, .., P));
ParamLists ==
    {<<>>} \cup {<<p>> : p \in {"a", "b"}} \cup {<<p, q>> : p \in {"a", "b"}, q \in {"a", "b"}}

ArgsFor(n) == [i \in 1..n |-> Integer(i)]

ParameterModules ==
    {<<Let("f", Function(ps, <<StmtReturn(x)>>)),
       PrintCall(FunctionCall(Identifier("f"), ArgsFor(n)))>> :
        ps \in ParamLists, x \in {Identifier("a"), Identifier("b"), Integer(0)}, n \in 0..2}

\* Closures: the inner function is called after `make` has returned.
ClosureModules ==
    {<<Let("make", Function(<<>>, <<Let("x", Integer(v)),
                                     StmtReturn(Function(<<>>, <<StmtReturn(Identifier("x"))>>))>>)),
       Let("g", Call0("make")),
       PrintCall(Call0("g"))>> : v \in Vals}
    \cup
    {<<Let("x", Integer(w)),
       Let("make", Function(<<"x">>, <<StmtReturn(Function(<<>>, <<StmtReturn(Identifier("x"))>>))>>)),
       Let("g", FunctionCall(Identifier("make"), <<Integer(v)>>)),
       Let("h", FunctionCall(Identifier("make"), <<Integer(w)>>)),
       PrintCall(Operation(Call0("g"), "Subtract", Call0("h")))>> : v \in Vals, w \in Vals}
    \cup
    {<<StmtExpression(FunctionCall(
          FunctionCall(Function(<<>>, <<Let("x", Integer(10)),
                                        StmtReturn(Function(<<>>, <<StmtReturn(Identifier("x"))>>))>>),
                       <<>>), <<>>))>>}

\* Caller chain against enclosing chain: g is called from f, and encloses
\* only the module frame.
ScopeModules ==
    {pre \o <<Let("g", Function(<<>>, <<StmtReturn(Identifier("y"))>>)),
              Let("f", Function(<<>>, <<Let("y", Integer(v)), StmtReturn(Call0("g"))>>)),
              PrintCall(Call0("f"))>> :
        pre \in {<<>>, <<Let("y", Integer(0))>>}, v \in Vals}

\* Recursion, a return at module level, and the scenarios of the README.
RecursionModules ==
    {<<Let("f", Function(<<"n">>,
                 <<If(Identifier("n"),
                      <<StmtReturn(Operation(Integer(1), "Add",
                            FunctionCall(Identifier("f"),
                                <<Operation(Identifier("n"), "Subtract", Integer(1))>>)))>>,
                      <<>>),
                   StmtReturn(Integer(0))>>)),
       PrintCall(FunctionCall(Identifier("f"), <<Integer(v)>>))>> : v \in Vals}

ScenarioModules ==
    {<<StmtReturn(Integer(v)), PrintCall(Integer(1))>> : v \in Vals}
    \cup
    {<<PrintCall(Operation(Integer(2), "Add", Operation(Integer(3), "Multiply", Integer(4))))>>,
     <<Let("x", Integer(5)),
       If(Operation(Identifier("x"), "GreaterThan", Integer(3)),
          <<PrintCall(String("big"))>>, <<PrintCall(String("small"))>>)>>,
     <<Let("xs", List(<<Integer(1), Integer(2)>>)),
       StmtExpression(FunctionCall(Property(Identifier("xs"), "push"), <<Integer(3)>>)),
       PrintCall(Identifier("xs"))>>,
     <<Let("x", Integer(1)),
       Let("f", Function(<<>>, <<Let("x", Integer(2)), StmtReturn(Identifier("x"))>>)),
       PrintCall(Call0("f")),
       PrintCall(Identifier("x"))>>}

\* Assignments to x from inside a function: x bound in the module frame, in
\* the function's own frame, in both or in neither; x bound in the frame of
\* a maker whose inner function assigns it; x bound only by the caller.
StoreModules ==
    {pre \o <<Let("f", Function(<<>>, local \o
                   <<Assignment(TargetIdentifier("x"), Integer(v)),
                     StmtReturn(Identifier("x"))>>)),
              PrintCall(Call0("f")),
              PrintCall(Identifier("x"))>> :
        pre \in {<<>>, <<Let("x", Integer(0))>>},
        local \in {<<>>, <<Let("x", Integer(1))>>}, v \in Vals}
    \cup
    {<<Let("x", Integer(0)),
       Let("make", Function(<<>>,
           <<Let("x", Integer(1)),
             StmtReturn(Function(<<>>, <<Assignment(TargetIdentifier("x"), Integer(v)),
                                         StmtReturn(Identifier("x"))>>))>>)),
       Let("g", Call0("make")),
       PrintCall(Call0("g")),
       PrintCall(Identifier("x"))>> : v \in Vals}
    \cup
    {<<Let("g", Function(<<>>, <<Assignment(TargetIdentifier("x"), Integer(v)),
                                 StmtReturn(Integer(0))>>)),
       Let("f", Function(<<>>, <<Let("x", Integer(1)), StmtReturn(Call0("g"))>>)),
       PrintCall(Call0("f"))>> : v \in Vals}

\* Programs that bind the name `print`: at module level, as a parameter,
\* and in the frame enclosing a function that reads it.
BuiltinNameModules ==
    {<<Let("print", Integer(v)), PrintCall(Identifier("print"))>> : v \in Vals}
    \cup
    {<<Let("f", Function(<<"print">>, <<PrintCall(Identifier("print")),
                                        StmtReturn(Identifier("print"))>>)),
       PrintCall(FunctionCall(Identifier("f"), <<Integer(v)>>))>> : v \in Vals}
    \cup
    {<<Let("print", Integer(v)),
       Let("f", Function(<<>>, <<StmtReturn(Identifier("print"))>>)),
       PrintCall(Call0("f"))>> : v \in Vals}

\* let x = a / b; print(x op x); for the floats 0.0 and 1.0 and the two
\* equality operators.
SelfComparisonModules ==
    {<<Let("x", Operation(Float(a), "Divide", Float(b))),
       PrintCall(Operation(Identifier("x"), op, Identifier("x")))>> :
        a \in {0, 2}, b \in {0, 2}, op \in {"Equals", "NotEquals"}}

\* let a = [1]; let b = [v] (or let b = a); let c = L + R; c.push(9);
\* print(a); print(b); print(c); for L and R among a and b.
ConcatModules ==
    {<<Let("a", List(<<Integer(1)>>)),
       Let("b", init),
       Let("c", Operation(Identifier(l), "Add", Identifier(r))),
       StmtExpression(FunctionCall(Property(Identifier("c"), "push"), <<Integer(9)>>)),
       PrintCall(Identifier("a")),
       PrintCall(Identifier("b")),
       PrintCall(Identifier("c"))>> :
        init \in {Identifier("a")} \cup {List(<<Integer(v)>>) : v \in Vals},
        l \in {"a", "b"}, r \in {"a", "b"}}

\* The index expressions: the literals 0..MaxInt and 0 - 1.
IndexExprs ==
    {Integer(k) : k \in Vals} \cup {Operation(Integer(0), "Subtract", Integer(1))}

\* let xs = [1, 2]; let ys = xs; xs[i] = v; print(ys[i]); print(ys);
\* and let xs = [1, 2]; print(xs[i]);
SubscriptModules ==
    {<<Let("xs", List(<<Integer(1), Integer(2)>>)),
       Let("ys", Identifier("xs")),
       Assignment(TargetSubscript(Identifier("xs"), i), Integer(v)),
       PrintCall(Subscript(Identifier("ys"), i)),
       PrintCall(Identifier("ys"))>> : i \in IndexExprs, v \in Vals}
    \cup
    {<<Let("xs", List(<<Integer(1), Integer(2)>>)),
       PrintCall(Subscript(Identifier("xs"), i))>> : i \in IndexExprs}

\* let f = fn() { B }; let g = fn() { B }; print(f()); print(g()); and the
\* same two declarations inside a function.
TwinLiteralModules ==
    UNION {{<<Let("f", Function(<<>>, body)), Let("g", Function(<<>>, body)),
              PrintCall(Call0("f")), PrintCall(Call0("g"))>>,
            <<Let("h", Function(<<>>,
                  <<Let("f", Function(<<>>, body)), Let("g", Function(<<>>, body)),
                    StmtReturn(Operation(Call0("f"), "Add", Call0("g")))>>)),
              PrintCall(Call0("h"))>>} :
           body \in {<<StmtReturn(Integer(v))>> : v \in Vals}}

\* The list literals of up to three integer literals.
ListLiterals ==
    {List(<<>>)} \cup {List(<<Integer(a)>>) : a \in Vals}
        \cup {List(<<Integer(a), Integer(b)>>) : a \in Vals, b \in Vals}
        \cup {List(<<Integer(a), Integer(b), Integer(c)>>) :
                 a \in Vals, b \in Vals, c \in Vals}

\* let xs = [e0, .., e(k-1)]; print(xs[0]); print(xs);
ListLiteralModules ==
    {<<Let("xs", l), PrintCall(Subscript(Identifier("xs"), Integer(0))),
       PrintCall(Identifier("xs"))>> : l \in ListLiterals}

\* let p = fn(a) { print(a); return a; };
Tracer ==
    Let("p", Function(<<"a">>, <<PrintCall(Identifier("a")), StmtReturn(Identifier("a"))>>))

Traced(v) == FunctionCall(Identifier("p"), <<Integer(v)>>)

\* What evaluates p(v) and p(w) as the operands of an operator, as the
\* arguments of a call, as the target and the argument of a call, and as
\* the items of a list literal.
EvalOrderModule(kind, v, w) ==
    CASE kind = "operation" ->
            <<Tracer, PrintCall(Operation(Traced(v), "Add", Traced(w)))>>
      [] kind = "arguments" ->
            <<Tracer,
              Let("g", Function(<<"a", "b">>, <<StmtReturn(Identifier("a"))>>)),
              PrintCall(FunctionCall(Identifier("g"), <<Traced(v), Traced(w)>>))>>
      [] kind = "target" ->
            <<Tracer,
              Let("mk", Function(<<"a">>, <<PrintCall(Identifier("a")),
                                            StmtReturn(Identifier("p"))>>)),
              StmtExpression(FunctionCall(FunctionCall(Identifier("mk"), <<Integer(v)>>),
                                          <<Traced(w)>>))>>
      [] kind = "list" ->
            <<Tracer, PrintCall(List(<<Traced(v), Traced(w)>>))>>

EvalOrderKinds == {"operation", "arguments", "target", "list"}

EvalOrderModules ==
    {EvalOrderModule(kind, v, w) : kind \in EvalOrderKinds, v \in Vals, w \in Vals}

\* A function reads a variable of its enclosing frame that the enclosing
\* code assigns ("store") or declares ("declare") after the literal; and
\* two invocations of a maker whose two inner functions share the variable n
\* ("siblings"): c[0](v) sets n, c[1]() and d[1]() read it.
CaptureModule(kind, v) ==
    CASE kind = "store" ->
            <<Let("x", Integer(0)),
              Let("f", Function(<<>>, <<StmtReturn(Identifier("x"))>>)),
              Assignment(TargetIdentifier("x"), Integer(v)),
              PrintCall(Call0("f"))>>
      [] kind = "declare" ->
            <<Let("f", Function(<<>>, <<StmtReturn(Identifier("y"))>>)),
              Let("y", Integer(v)),
              PrintCall(Call0("f"))>>
      [] kind = "siblings" ->
            <<Let("mk", Function(<<>>,
                  <<Let("n", Integer(0)),
                    Let("set", Function(<<"a">>,
                        <<Assignment(TargetIdentifier("n"), Identifier("a")),
                          StmtReturn(Integer(0))>>)),
                    Let("get", Function(<<>>, <<StmtReturn(Identifier("n"))>>)),
                    StmtReturn(List(<<Identifier("set"), Identifier("get")>>))>>)),
              Let("c", Call0("mk")),
              Let("d", Call0("mk")),
              StmtExpression(FunctionCall(Subscript(Identifier("c"), Integer(0)),
                                          <<Integer(v)>>)),
              PrintCall(FunctionCall(Subscript(Identifier("c"), Integer(1)), <<>>)),
              PrintCall(FunctionCall(Subscript(Identifier("d"), Integer(1)), <<>>))>>

CaptureKinds == {"store", "declare", "siblings"}

CaptureModules == {CaptureModule(kind, v) : kind \in CaptureKinds, v \in Vals}

\* let n; let f = fn() { }; print(L op R); for L and R among n (Null), f,
\* print, 0, 1 and "a", and the two equality operators.
EqualityOperands ==
    {Identifier("n"), Identifier("f"), Identifier("print"), Integer(0), Integer(1),
     String("a")}

EqualityModules ==
    {<<Declaration("n", <<>>), Let("f", Function(<<>>, <<>>)),
       PrintCall(Operation(l, op, r))>> :
        l \in EqualityOperands, r \in EqualityOperands, op \in {"Equals", "NotEquals"}}

\* let n; if <condition> { print(1); } else { .. } print(0); with a Float,
\* a Bool, a String, a List, a Function, a Native or Null as the condition.
TruthConditions ==
    {Float(0), Float(1), Float(2), Operation(Float(0), "Divide", Float(0)),
     Operation(Integer(0), "LessThan", Integer(1)),
     Operation(Integer(1), "LessThan", Integer(0)),
     String("a"), String(""), List(<<>>), Function(<<>>, <<>>),
     Identifier("n"), Identifier("print")}

TruthModules ==
    {<<Declaration("n", <<>>), If(c, <<PrintCall(Integer(1))>>, e), PrintCall(Integer(0))>> :
        c \in TruthConditions, e \in {<<>>, <<PrintCall(Integer(2))>>}}

Modules ==
    StoreModules \cup BuiltinNameModules \cup OperatorModules \cup IfModules
        \cup SelfComparisonModules \cup ConcatModules \cup SubscriptModules
        \cup TwinLiteralModules \cup ListLiteralModules \cup EvalOrderModules
        \cup CaptureModules \cup EqualityModules \cup TruthModules
        \cup IfFunctionModules \cup FunctionBodyModules
        \cup ParameterModules \cup ClosureModules \cup ScopeModules
        \cup RecursionModules \cup ScenarioModules

\* No call_with_return is in progress.
NoCallWithReturn ==
    [phase |-> "none", value |-> VNull, args |-> <<>>, active |-> 0, result |-> VNull]

Init ==
    /\ builtins = Builtins_new
    /\ call_with_return = NoCallWithReturn
    /\ module \in Modules
    /\ code_builder = CodeBuilder_new(0)
    /\ status = "compile"
    /\ error = ""
    /\ exit_code = -1
    /\ frames = <<>>
    /\ frame = 0
    /\ next_action = NoAction
    /\ lists = <<>>
    /\ stdout = <<>>
    /\ fetched = <<>>
    /\ call_base = <<>>
    /\ returned = {}

Next ==
    \/ CompileModule
    \/ Start
    \/ TakeCall
    \/ TakeReturnNative
    \/ TakeReturn
    \/ pop
    \/ call
    \/ return_statement
    \/ create_function
    \/ load_constant
    \/ load_variable
    \/ store_variable
    \/ declare
    \/ create_list
    \/ exit
    \/ jump
    \/ jump_false
    \/ operation
    \/ store_subscript
    \/ load_subscript
    \/ store_property
    \/ load_property

Spec == Init /\ [][Next]_vars

\* The runs from the compiled module on.  main is one thread that goes on
\* to build the Code and to Interpreter::run, which takes a step whenever
\* one is possible.
InitCompiled ==
    /\ builtins = Builtins_new
    /\ call_with_return = NoCallWithReturn
    /\ module \in Modules
    /\ code_builder = compile_module(CodeBuilder_new(0), module)
    /\ status = "compiled"
    /\ error = ""
    /\ exit_code = -1
    /\ frames = <<>>
    /\ frame = 0
    /\ next_action = NoAction
    /\ lists = <<>>
    /\ stdout = <<>>
    /\ fetched = <<>>
    /\ call_base = <<>>
    /\ returned = {}

NextRun ==
    \/ Start
    \/ TakeCall
    \/ TakeReturnNative
    \/ TakeReturn
    \/ pop
    \/ call
    \/ return_statement
    \/ create_function
    \/ load_constant
    \/ load_variable
    \/ store_variable
    \/ declare
    \/ create_list
    \/ exit
    \/ jump
    \/ jump_false
    \/ operation
    \/ store_subscript
    \/ load_subscript
    \/ store_property
    \/ load_property

LiveSpec == InitCompiled /\ [][NextRun]_vars /\ WF_vars(NextRun)

\* Sanity: the instruction count of a running frame stays inside its code,
\* and the operand stack never underflows.
TypeOK ==
    /\ status \in {"compile", "compiled", "run", "exit", "panic"}
    /\ status = "run" /\ next_action = NoAction => Pc < Len(Cur.code.instructions)
    /\ error # "stack corruption"

(***************************************************************************)
(* The function literals of a module (ast.rs) and the code compiled for    *)
(* them.                                                                   *)
(***************************************************************************)
RECURSIVE FunctionsOfExpr(_)
RECURSIVE FunctionsOfExprs(_)
RECURSIVE FunctionsOfStmt(_)
RECURSIVE FunctionsOfStmts(_)

FunctionsOfExpr(e) ==
    CASE e.e = "Operation" -> FunctionsOfExpr(e.lhs) \cup FunctionsOfExpr(e.rhs)
      [] e.e = "Function" -> {e} \cup FunctionsOfStmts(e.body)
      [] e.e = "FunctionCall" -> FunctionsOfExpr(e.target) \cup FunctionsOfExprs(e.args)
      [] e.e = "Subscript" -> FunctionsOfExpr(e.expr) \cup FunctionsOfExpr(e.subscript)
      [] e.e = "Property" -> FunctionsOfExpr(e.expr)
      [] e.e = "List" -> FunctionsOfExprs(e.items)
      [] OTHER -> {}

FunctionsOfExprs(es) == UNION {FunctionsOfExpr(es[i]) : i \in 1..Len(es)}

FunctionsOfStmt(s) ==
    CASE s.s \in {"Return", "Expression"} -> FunctionsOfExpr(s.expr)
      [] s.s = "Declaration" -> FunctionsOfExprs(s.assign)
      [] s.s = "Assignment" ->
            FunctionsOfExpr(s.source) \cup
            (CASE s.target.t = "Identifier" -> {}
               [] s.target.t = "Property" -> FunctionsOfExpr(s.target.expr)
               [] s.target.t = "Subscript" ->
                     FunctionsOfExpr(s.target.expr) \cup FunctionsOfExpr(s.target.subscript))
      [] s.s = "If" ->
            FunctionsOfExpr(s.cond) \cup FunctionsOfStmts(s.body)
                \cup FunctionsOfStmts(s.else_body)

FunctionsOfStmts(ss) == UNION {FunctionsOfStmt(ss[i]) : i \in 1..Len(ss)}

\* compile_function hands every literal a CodeBuilder of its own, so the
\* code of a literal does not depend on where the literal stands.
CodeOfLiteral(f) ==
    compile_function(CodeBuilder_new(0), f.params, f.body).constants[1].code

\* A CodeBuilder and every CodeBuilder nested in its constants.
RECURSIVE NestedBuilders(_)
NestedBuilders(cb) ==
    {cb} \cup UNION {NestedBuilders(cb.constants[i].code) :
                        i \in {j \in 1..Len(cb.constants) : cb.constants[j].c = "Code"}}

\* Sanity: the nested builders of the compiled module are the codes of its
\* function literals.
LiteralsCompiled ==
    status # "compile" =>
        NestedBuilders(code_builder) \ {code_builder} =
            {CodeOfLiteral(f) : f \in FunctionsOfStmts(module)}

(***************************************************************************)
(* C1: when a frame executes Return, its operand stack holds exactly one   *)
(* value, the value being returned, whatever the body executed before.     *)
(***************************************************************************)
ReturnStackHoldsOneValue == Fetching("Return") => Len(Cur.stack) = 1

\* A function frame is about to execute Return with a Null left under the
\* return value by an earlier `xs[0] = 1;`.
ReturnOverLeftoverNull ==
    /\ Fetching("Return")
    /\ frame > 1
    /\ Cur.stack = <<VNull, VInteger(1)>>

(***************************************************************************)
(* C2: the Code of a function literal with P declared parameters has       *)
(* parameters = P, and the first P names of its name pool are the          *)
(* parameter names in declaration order, also when a name is repeated.     *)
(***************************************************************************)
ParametersHeadNamePool ==
    status # "compile" =>
        \A f \in FunctionsOfStmts(module) :
            LET code == CodeOfLiteral(f)
                P == Len(f.params)
            IN /\ code \in NestedBuilders(code_builder)
               /\ code.parameters = P
               /\ Len(code.names) >= P
               /\ SubSeq(code.names, 1, P) = f.params

\* fn(a, a) { return b; } called with (1, 2) has returned its second
\* argument: `b` was bound as if it were the second parameter.
RepeatedParameterBindsOtherName ==
    /\ status = "exit"
    /\ stdout = <<"2">>
    /\ \E f \in FunctionsOfStmts(module) :
          f.params = <<"a", "a">> /\ f.body = <<StmtReturn(Identifier("b"))>>

(***************************************************************************)
(* C3: in the compiled module and in every function Code nested in it, the *)
(* target of every Jump and JumpFalse is an index into the instructions of *)
(* the same Code: 0 <= target < length.                                    *)
(***************************************************************************)
JumpTargetsValid ==
    status # "compile" =>
        \A cb \in NestedBuilders(code_builder) :
            \A i \in 1..Len(cb.instructions) :
                cb.instructions[i].op \in {"Jump", "JumpFalse"} =>
                    cb.instructions[i].arg \in 0..(Len(cb.instructions) - 1)

\* A compiled Code with nested if/else and an empty then-body: a JumpFalse
\* whose target is its own index, next to another JumpFalse and a Jump.
NestedAndEmptyThenCompiled ==
    /\ status # "compile"
    /\ \E cb \in NestedBuilders(code_builder) :
          \E i, j, k \in 1..Len(cb.instructions) :
              /\ i # j
              /\ cb.instructions[i] = Instruction("JumpFalse", i - 1)
              /\ cb.instructions[j].op = "JumpFalse"
              /\ cb.instructions[k].op = "Jump"

(***************************************************************************)
(* The layout compile_if_statement gives the if statements of a statement  *)
(* list compiled onto the builder cb: the index of the JumpFalse, the      *)
(* indices of the then-body, the index of the Jump and the indices of the  *)
(* else-body when there is one, and the index after the whole statement.   *)
(* The if statements nested in the bodies are included.                    *)
(***************************************************************************)
RECURSIVE IfRegions(_, _)
IfRegions(cb, stmts) ==
    IF stmts = <<>> THEN {}
    ELSE LET s == Head(stmts)
             done == compile_statement(cb, s)
             here ==
                 IF s.s # "If" THEN {}
                 ELSE LET c1 == compile_expression(cb, s.cond)
                          label_start == Len(c1.instructions)
                          c2 == inst(c1, Instruction("JumpFalse", 0))
                          c3 == compile_statements(c2, s.body)
                          label_else == Len(c3.instructions)
                          c4 == inst(c3, Instruction("Jump", 0))
                          c5 == compile_statements(c4, s.else_body)
                          has_else == s.else_body # <<>>
                      IN {[cond |-> s.cond,
                           jump_false |-> label_start,
                           then_body |-> (label_start + 1)..(label_else - 1),
                           has_else |-> has_else,
                           jump |-> label_else,
                           else_body |-> IF has_else
                                         THEN (label_else + 1)..(Len(c5.instructions) - 1)
                                         ELSE {},
                           after |-> IF has_else THEN Len(c5.instructions) ELSE label_else,
                           straight |-> \A k \in 1..Len(s.body) : s.body[k].s # "If"]}
                         \cup IfRegions(c2, s.body)
                         \cup IfRegions(c4, s.else_body)
         IN here \cup After(done, IfRegions(done, Tail(stmts)))

\* The if statements of the code frame i runs: the module's for the root
\* frame, those of the function literal whose Code it is for any other.
RegionsOfFrame(i) ==
    IF i = 1 THEN IfRegions(CodeBuilder_new(0), module)
    ELSE UNION {IfRegions(use_names(CodeBuilder_new(Len(f.params)), f.params), f.body) :
                  f \in {g \in FunctionsOfStmts(module) :
                            build(CodeOfLiteral(g)) = frames[i].code}}

(***************************************************************************)
(* C4: in every frame and for every if statement whose condition is an     *)
(* integer literal, once the JumpFalse has executed: with a truthy         *)
(* condition the frame goes on with the first instruction of the then-body,*)
(* executes no instruction of the else-body, has executed every            *)
(* instruction of a then-body without nested if once it is past the        *)
(* statement, and goes on after the whole statement when the then-body is  *)
(* done; with a falsy condition it executes no instruction of the          *)
(* then-body and goes on with the first instruction of the else-body, or   *)
(* after the then-body when there is no else.  A taken Jump or JumpFalse   *)
(* resumes at the instruction after its target.                            *)
(***************************************************************************)
IfElseRunsOneBranch ==
    \A i \in 1..Len(frames) :
        \A R \in RegionsOfFrame(i) :
            LET F == fetched[i]
                pc == frames[i].instruction_count
                code == frames[i].code.instructions
                truthy == as_bool(VInteger(R.cond.int))
            IN  (R.cond.e = "Integer" /\ R.jump_false \in F) =>
                  /\ truthy =>
                        /\ (R.jump_false + 1) \in F \/ pc = R.jump_false + 1
                        /\ R.else_body \cap F = {}
                        /\ pc \notin R.else_body
                        /\ (R.has_else /\ R.jump \in F) =>
                              /\ R.after \in F \/ pc = R.after
                              /\ R.after = code[R.jump + 1].arg + 1
                        /\ (R.straight /\ (R.after \in F \/ pc = R.after)) =>
                              R.then_body \subseteq F
                  /\ ~truthy =>
                        /\ R.then_body \cap F = {}
                        /\ pc \notin R.then_body
                        /\ R.has_else => (R.jump \notin F /\ pc # R.jump)
                        /\ LET resume == IF R.has_else THEN R.jump + 1 ELSE R.after
                           IN /\ resume \in F \/ pc = resume
                              /\ resume = code[R.jump_false + 1].arg + 1

\* The module has run to its Exit through a truthy if/else whose then-body
\* holds a falsy if/else: the inner else-body ran, the outer one did not.
NestedElseRanInsideThen ==
    /\ status = "exit"
    /\ \E R1, R2 \in RegionsOfFrame(1) :
          /\ R1.cond.e = "Integer" /\ as_bool(VInteger(R1.cond.int))
          /\ R2.cond.e = "Integer" /\ ~as_bool(VInteger(R2.cond.int))
          /\ R1.has_else /\ R2.has_else
          /\ R2.jump_false \in R1.then_body
          /\ R2.else_body # {} /\ R2.else_body \subseteq fetched[1]
          /\ R1.after \in fetched[1]


\* The frames on the outer_frame chain of frame i, nearest first.
RECURSIVE EnclosingChain(_)
EnclosingChain(i) ==
    IF i = 0 THEN <<>> ELSE <<i>> \o EnclosingChain(frames[i].outer_frame)

(***************************************************************************)
(* C5: CreateFunction pushes a function that holds the frame active at     *)
(* that moment; a call of the function runs in a frame enclosed by that    *)
(* frame; a frame keeps its bindings when it returns; and a LoadVariable   *)
(* in a frame whose enclosing frame has already returned, of a name bound  *)
(* there and not locally, pushes the binding of that enclosing frame.      *)
(***************************************************************************)
ClosureKeepsCapturedFrame ==
    [][/\ (Fetching("CreateFunction") /\ status' = "run") =>
             /\ Top(frames'[frame].stack, 0).tag = "Function"
             /\ Top(frames'[frame].stack, 0).outer_frame = frame
       /\ (Fetching("Call") /\ Top(Cur.stack, 0).tag = "Function"
                /\ next_action'.a = "Call") =>
             frames'[next_action'.frame].outer_frame = Top(Cur.stack, 0).outer_frame
       /\ (status = "run" /\ next_action.a = "Return") =>
             frames'[frame].scope = Cur.scope
       /\ (Fetching("LoadVariable")
                /\ Builtins_resolve(CurName(CurInstruction.arg)) = <<>>
                /\ ~Frame_contains_variable(Cur, CurName(CurInstruction.arg))
                /\ Cur.outer_frame \in returned
                /\ Frame_contains_variable(frames[Cur.outer_frame],
                                           CurName(CurInstruction.arg))) =>
             /\ status' = "run"
             /\ frames'[frame].stack =
                    Append(Cur.stack,
                           frames[Cur.outer_frame].scope[CurName(CurInstruction.arg)])
      ]_vars

\* The inner function runs after `make` has returned, called from the
\* module frame, and has loaded the x of make's frame.
InnerReadsReturnedOuter ==
    \E i \in 1..Len(frames) :
        /\ frames[i].outer_frame \in returned
        /\ frames[i].calling_frame # frames[i].outer_frame
        /\ ~Frame_contains_variable(frames[i], "x")
        /\ Frame_contains_variable(frames[frames[i].outer_frame], "x")
        /\ frames[i].stack = <<frames[frames[i].outer_frame].scope["x"]>>
        /\ frames[i].instruction_count = 1

(***************************************************************************)
(* C6: LoadVariable of a name that is not a built-in pushes the binding of *)
(* the nearest frame on the enclosing chain of the active frame that binds *)
(* the name; when no frame of that chain binds it the load is a fatal      *)
(* error, whatever the frames of the caller chain bind.                    *)
(***************************************************************************)
LoadVariableUsesEnclosingChain ==
    [][(Fetching("LoadVariable")
            /\ Builtins_resolve(CurName(CurInstruction.arg)) = <<>>) =>
          LET name == CurName(CurInstruction.arg)
              chain == EnclosingChain(frame)
              binders == {k \in 1..Len(chain) :
                             Frame_contains_variable(frames[chain[k]], name)}
          IN IF binders = {}
             THEN status' = "panic" /\ error' = "couln't resolve variable"
             ELSE LET nearest == chain[CHOOSE k \in binders : \A m \in binders : k <= m]
                  IN /\ status' = "run"
                     /\ frames'[frame].stack =
                            Append(Cur.stack, frames[nearest].scope[name])
      ]_vars

\* The load has failed although the caller of the active frame binds the
\* name: no frame of the enclosing chain does.
UnresolvedThoughCallerBinds ==
    /\ status = "panic"
    /\ error = "couln't resolve variable"
    /\ CurInstruction.op = "LoadVariable"
    /\ Cur.calling_frame # 0
    /\ Frame_contains_variable(frames[Cur.calling_frame], CurName(CurInstruction.arg))
    /\ \A k \in 1..Len(EnclosingChain(frame)) :
          ~Frame_contains_variable(frames[EnclosingChain(frame)[k]],
                                   CurName(CurInstruction.arg))

(***************************************************************************)
(* C7: Return pops one value and hands it to the run loop; the frame a     *)
(* call makes has the frame that issued the call as its calling_frame; the *)
(* run loop then makes that calling_frame the active frame and pushes the  *)
(* value on its stack, or exits with code 0 when there is none.            *)
(***************************************************************************)
ReturnResumesCaller ==
    [][/\ (Fetching("Return") /\ Len(Cur.stack) >= 1) =>
             /\ frames'[frame].stack = Drop(Cur.stack, 1)
             /\ next_action' = ActionReturn(Top(Cur.stack, 0))
             /\ frame' = frame
       /\ (status = "run" /\ next_action.a = "Call") =>
             /\ frame' = next_action.frame
             /\ frames[next_action.frame].calling_frame = frame
       /\ (status = "run" /\ next_action.a = "Return") =>
             IF Cur.calling_frame # 0
             THEN /\ status' = "run"
                  /\ frame' = Cur.calling_frame
                  /\ frames'[Cur.calling_frame].stack =
                         Append(frames[Cur.calling_frame].stack, next_action.value)
             ELSE status' = "exit" /\ exit_code' = 0
      ]_vars

\* A frame whose caller is not its enclosing frame has returned, and its
\* caller is active again with the value on its stack.
ReturnedToCallerNotEncloser ==
    \E i \in returned :
        /\ frames[i].calling_frame # 0
        /\ frames[i].calling_frame # frames[i].outer_frame
        /\ frame = frames[i].calling_frame
        /\ next_action = NoAction
        /\ Len(Cur.stack) = Len(call_base[i]) + 1

(***************************************************************************)
(* C8: when a user function returns, the stack of its caller is the stack  *)
(* the caller had right after Call(k) popped the callable and its k        *)
(* arguments, with the returned value pushed on top.                       *)
(***************************************************************************)
CallGrowsCallerStackByOne ==
    [][/\ (Fetching("Call") /\ next_action'.a = "Call") =>
             call_base'[next_action'.frame] = frames'[frame].stack
       /\ (status = "run" /\ next_action.a = "Return" /\ Cur.calling_frame # 0) =>
             /\ Len(frames'[frame'].stack) = Len(call_base[frame]) + 1
             /\ Top(frames'[frame'].stack, 0) = next_action.value
             /\ SubSeq(frames'[frame'].stack, 1, Len(call_base[frame])) = call_base[frame]
      ]_vars

\* f was called with an operand already on the caller's stack, as in
\* print(f() + 2), and has returned 1 on top of it.
ReturnValueAboveOperand ==
    \E i \in returned :
        /\ call_base[i] = <<VInteger(2)>>
        /\ frame = frames[i].calling_frame
        /\ next_action = NoAction
        /\ Cur.stack = <<VInteger(2), VInteger(1)>>

\* The types on the base chain of a type, the type itself first.
RECURSIVE TypeChain(_)
TypeChain(ty) == IF ty = "" THEN <<>> ELSE <<ty>> \o TypeChain(BaseOf(ty))

(***************************************************************************)
(* C9: an operator instruction calls the slot of the first type, on the    *)
(* base chain of the type of the right-hand operand, that has the slot,    *)
(* and is a fatal error when no type of that chain has it; the type of the *)
(* left-hand operand plays no part.                                        *)
(***************************************************************************)
OperatorDispatchesOnRhsType ==
    [][(Fetchable /\ CurInstruction.op \in Operators /\ Len(Cur.stack) >= 2) =>
          LET lhs == Top(Cur.stack, 0)
              rhs == Top(Cur.stack, 1)
              slot == SlotOfInstruction(CurInstruction.op)
              chain == TypeChain(TypeOf(rhs))
              owners == {k \in 1..Len(chain) : slot \in OwnSlots(chain[k])}
          IN IF owners = {}
             THEN status' = "panic" /\ error' = "does not support"
             ELSE LET ty == chain[CHOOSE k \in owners : \A m \in owners : k <= m]
                      r == NativeBody([ty |-> ty, slot |-> slot], <<lhs, rhs>>, lists)
                  IN IF r.ok
                     THEN /\ status' = "run"
                          /\ next_action' = ActionReturnNative(r.value)
                          /\ frames'[frame].stack = Drop(Cur.stack, 2)
                     ELSE status' = "panic" /\ error' = r.error
      ]_vars

\* 1 < "a": the integer on the left has less_than, the string on the right
\* has not, and the instruction has failed.
NoSlotOnRhsChain ==
    /\ status = "panic"
    /\ error = "does not support"
    /\ CurInstruction.op = "LessThan"
    /\ Top(Cur.stack, 0) = VInteger(1)
    /\ Top(Cur.stack, 1) = VString("a")

\* The operators for which L op R and R op L differ.
NonCommutative ==
    {"Subtract", "Divide", "LessThan", "GreaterThan", "LessThanOrEqual",
     "GreaterThanOrEqual"}

\* L op R on the integer literals l and r >= 0, as the source program means it.
ExpectedLine(l, op, r) ==
    CASE op = "Subtract" -> ToString(l - r)
      [] op = "Divide" -> ToString(l \div r)
      [] op = "LessThan" -> IF l < r THEN "true" ELSE "false"
      [] op = "GreaterThan" -> IF l > r THEN "true" ELSE "false"
      [] op = "LessThanOrEqual" -> IF l <= r THEN "true" ELSE "false"
      [] op = "GreaterThanOrEqual" -> IF l >= r THEN "true" ELSE "false"

(***************************************************************************)
(* C10: for print(L op R) on integer literals and a non-commutative op,    *)
(* the operator instruction finds R's value below L's value on the stack,  *)
(* and the program prints L op R: L - R for Subtract, L < R for LessThan,  *)
(* and so on (a division by zero prints nothing and does not exit).        *)
(***************************************************************************)
OperationComputesLhsOpRhs ==
    \A l, r \in Vals : \A op \in NonCommutative :
        module = <<PrintCall(Operation(Integer(l), op, Integer(r)))>> =>
            /\ Fetching(op) => Cur.stack = <<VInteger(r), VInteger(l)>>
            /\ status \in {"run", "exit"} /\ stdout # <<>> =>
                  r # 0 \/ op # "Divide"
            /\ stdout # <<>> => stdout = <<ExpectedLine(l, op, r)>>
            /\ status = "exit" => stdout # <<>>

\* print(1 - 2) has printed -1 and exited.
SubtractPrintsLhsMinusRhs ==
    /\ module = <<PrintCall(Operation(Integer(1), "Subtract", Integer(2)))>>
    /\ status = "exit"
    /\ stdout = <<"-1">>

\* The function literals of the module whose compiled Code is `code`.
LiteralsOfCode(code) ==
    {f \in FunctionsOfStmts(module) : build(CodeOfLiteral(f)) = code}

Distinct(seq) == \A i, j \in 1..Len(seq) : i # j => seq[i] # seq[j]

(***************************************************************************)
(* C11: a Call(k) of a function whose literal has k distinct parameters    *)
(* makes a frame that binds parameter i to argument i, argument 0 being    *)
(* the value just below the callable, binds nothing else, has an empty     *)
(* stack and stands at instruction 0; the frame is unchanged when it       *)
(* becomes the active frame.  In `print(f(e0, .., e(k-1)))` on integer     *)
(* literals, argument i is the value of e_i.                               *)
(***************************************************************************)
ArgumentsBoundToParameters ==
    [][/\ (Fetching("Call") /\ Len(Cur.stack) >= CurInstruction.arg + 1
              /\ Top(Cur.stack, 0).tag = "Function" /\ next_action'.a = "Call") =>
            LET k == CurInstruction.arg
                callee == frames'[next_action'.frame]
                call_expr == module[Len(module)].expr.args[1]
            IN \A f \in LiteralsOfCode(Top(Cur.stack, 0).code) :
                  Distinct(f.params) =>
                     /\ Len(f.params) = k
                     /\ DOMAIN callee.scope = {f.params[j] : j \in 1..k}
                     /\ \A j \in 1..k : callee.scope[f.params[j]] = Top(Cur.stack, j)
                     /\ callee.stack = <<>>
                     /\ callee.instruction_count = 0
                     /\ module \in ParameterModules =>
                           \A j \in 1..k :
                              callee.scope[f.params[j]] = VInteger(call_expr.args[j].int)
       /\ (status = "run" /\ next_action.a = "Call") =>
            /\ frame' = next_action.frame
            /\ frames'[frame'] = frames[next_action.frame]
      ]_vars

\* fn(b, a) called with (1, 2) is active at instruction 0 with b = 1, a = 2.
CalleeStartsWithBothBound ==
    /\ module \in ParameterModules
    /\ module[1].assign[1].params = <<"b", "a">>
    /\ frame = 2
    /\ next_action = NoAction
    /\ Cur.instruction_count = 0
    /\ Cur.stack = <<>>
    /\ Cur.scope = [n \in {"a", "b"} |-> IF n = "b" THEN VInteger(1) ELSE VInteger(2)]

(***************************************************************************)
(* C12: StoreVariable of a name rebinds it, to the value on top of the     *)
(* stack, in the nearest frame on the enclosing chain of the active frame  *)
(* that binds the name; every other frame keeps its bindings, no frame     *)
(* gains a name and no frame is made; when no frame of the chain binds the *)
(* name the store is a fatal error.                                        *)
(***************************************************************************)
StoreVariableRebindsNearestBinder ==
    [][(Fetching("StoreVariable") /\ Len(Cur.stack) >= 1) =>
          LET name == CurName(CurInstruction.arg)
              chain == EnclosingChain(frame)
              binders == {k \in 1..Len(chain) :
                             Frame_contains_variable(frames[chain[k]], name)}
          IN IF binders = {}
             THEN status' = "panic" /\ error' = "couln't resolve variable"
             ELSE LET nearest == chain[CHOOSE k \in binders : \A m \in binders : k <= m]
                  IN /\ status' = "run"
                     /\ Len(frames') = Len(frames)
                     /\ frames'[nearest].scope =
                            [frames[nearest].scope EXCEPT ![name] = Top(Cur.stack, 0)]
                     /\ \A i \in 1..Len(frames) :
                           i # nearest => frames'[i].scope = frames[i].scope
      ]_vars

\* The inner function of make has assigned x: the x of make's frame, which
\* has returned, is rebound; the inner frame binds nothing and the module's
\* x is still 0.
StoredIntoEnclosingNotLocal ==
    \E i \in 2..Len(frames) :
        /\ frames[i].outer_frame \in returned
        /\ frames[i].outer_frame # 1
        /\ frames[i].instruction_count >= 1
        /\ frames[i].code.instructions[frames[i].instruction_count].op = "StoreVariable"
        /\ DOMAIN frames[i].scope = {}
        /\ Frame_contains_variable(frames[frames[i].outer_frame], "x")
        /\ frames[frames[i].outer_frame].scope["x"] = VInteger(2)
        /\ Frame_contains_variable(frames[1], "x")
        /\ frames[1].scope["x"] = VInteger(0)

\* let x = 1; let f = fn() { let x = 2; return x; }; print(f()); print(x);
ShadowingModule ==
    <<Let("x", Integer(1)),
      Let("f", Function(<<>>, <<Let("x", Integer(2)), StmtReturn(Identifier("x"))>>)),
      PrintCall(Call0("f")),
      PrintCall(Identifier("x"))>>

(***************************************************************************)
(* C13: Declare of a name binds it, to the value on top of the stack, in   *)
(* the active frame, whether or not a frame of the enclosing chain binds   *)
(* it, and every other frame keeps its bindings.  A LoadVariable in the    *)
(* module frame of a name that a returned function frame has declared      *)
(* pushes the module frame's own binding, and the shadowing program prints *)
(* 2 and then 1.                                                           *)
(***************************************************************************)
DeclareBindsActiveFrameOnly ==
    [][/\ (Fetching("Declare") /\ Len(Cur.stack) >= 1) =>
            LET name == CurName(CurInstruction.arg) IN
            /\ status' = "run"
            /\ Len(frames') = Len(frames)
            /\ DOMAIN frames'[frame].scope = DOMAIN Cur.scope \cup {name}
            /\ frames'[frame].scope[name] = Top(Cur.stack, 0)
            /\ \A n \in DOMAIN Cur.scope \ {name} : frames'[frame].scope[n] = Cur.scope[n]
            /\ \A i \in 1..Len(frames) : i # frame => frames'[i].scope = frames[i].scope
       /\ (Fetching("LoadVariable") /\ frame = 1
              /\ Frame_contains_variable(Cur, CurName(CurInstruction.arg))
              /\ \E i \in returned :
                    Frame_contains_variable(frames[i], CurName(CurInstruction.arg))) =>
            \E k \in 1..Len(module) :
               /\ module[k].s = "Declaration"
               /\ module[k].ident = CurName(CurInstruction.arg)
               /\ module[k].assign # <<>> /\ module[k].assign[1].e = "Integer"
               /\ frames'[1].stack = Append(Cur.stack, VInteger(module[k].assign[1].int))
       /\ (module = ShadowingModule /\ status' = "exit") => stdout' = <<"2", "1">>
      ]_vars

\* The shadowing program is about to print x at module level: f has declared
\* its own x = 2 and returned, and the module's x = 1 was just loaded.
OuterBindingSurvivesShadow ==
    /\ module = ShadowingModule
    /\ frame = 1
    /\ stdout = <<"2">>
    /\ \E i \in returned : Frame_contains_variable(frames[i], "x")
                             /\ frames[i].scope["x"] = VInteger(2)
    /\ Cur.scope["x"] = VInteger(1)
    /\ Cur.stack # <<>>
    /\ Top(Cur.stack, 0) = VInteger(1)

(***************************************************************************)
(* C14: LoadVariable of the name `print` pushes the built-in print value,  *)
(* whatever the active frame and the frames of its enclosing chain bind    *)
(* under that name.                                                        *)
(***************************************************************************)
BuiltinShadowsFrames ==
    [][(Fetching("LoadVariable") /\ CurName(CurInstruction.arg) = "print") =>
          /\ status' = "run"
          /\ frames'[frame].stack =
                 Append(Cur.stack, VNative([ty |-> "", slot |-> "print"], ArgAny))
      ]_vars

\* A function frame whose parameter is called print has loaded `print` and
\* holds the built-in on its stack, not its argument.
PrintParameterLoadedAsBuiltin ==
    /\ frame > 1
    /\ Frame_contains_variable(Cur, "print")
    /\ Cur.scope["print"].tag = "Integer"
    /\ Cur.instruction_count = 1
    /\ Cur.code.instructions[1].op = "LoadVariable"
    /\ Cur.stack = <<PrintNative>>

(***************************************************************************)
(* call_value and get_property as functions of their arguments.            *)
(* Interpreter::new(frame, builtins) takes any root frame and any          *)
(* Builtins; the interpreters below start on a root frame that holds a     *)
(* callable and its arguments before a Call, or a target before a          *)
(* LoadProperty, with a Builtins whose `call` slots and property tables    *)
(* are drawn from a few registries.                                        *)
(***************************************************************************)
\* The Code of fn(<params>) { return <first parameter, or 0>; }
InputCode(params) ==
    [instructions |->
         <<IF params = <<>> THEN Instruction("LoadConstant", 0)
           ELSE Instruction("LoadVariable", 0),
           Inst0("Return"),
           Instruction("LoadConstant", IF params = <<>> THEN 1 ELSE 0),
           Inst0("Return")>>,
     constants |-> IF params = <<>> THEN <<VInteger(0), VNull>> ELSE <<VNull>>,
     names |-> params,
     parameters |-> Len(params)]

\* Sanity: InputCode is what the compiler makes of the literal.
InputCodeIsCompiled ==
    \A params \in {<<>>, <<"a">>, <<"a", "b">>} :
        InputCode(params) =
            build(CodeOfLiteral(
                Function(params, <<StmtReturn(IF params = <<>> THEN Integer(0)
                                              ELSE Identifier(params[1]))>>)))

\* The function made of that Code in the root frame.
InputFunction(params) == VFunction(InputCode(params), 1)

InputFunctions == {InputFunction(ps) : ps \in {<<>>, <<"a">>, <<"a", "b">>}}

ArgPatterns ==
    {ArgAny} \cup {ArgExact(n) : n \in 1..2} \cup {ArgMin(n) : n \in 1..2}
        \cup {ArgMax(n) : n \in 1..2}
        \cup {ArgRange(0, 1), ArgRange(1, 2), ArgRange(2, 2)}

\* The function `print` under every arity pattern.
InputNatives == {VNative(PrintNative.func, pattern) : pattern \in ArgPatterns}

InputBounds ==
    {VBound(c, VInteger(7)) : c \in InputFunctions \cup InputNatives}
        \cup {VBound(VBound(c, VInteger(7)), VInteger(8)) :
                 c \in {InputFunction(<<"a", "b">>), PrintNative}}

InputArguments ==
    {<<>>, <<VInteger(1)>>, <<VInteger(1), VInteger(2)>>, <<VInteger(2), VInteger(1)>>,
     <<VInteger(1), VInteger(2), VInteger(3)>>}

\* Builtins::new() with the `call` slot of some types filled in.
WithCall(slots) ==
    [Builtins_new EXCEPT !.call = [ty \in TypeNames |->
                                      IF ty \in DOMAIN slots THEN <<slots[ty]>> ELSE <<>>]]

CallRegistries ==
    {Builtins_new,
     WithCall([ty \in {"object"} |-> PrintNative]),
     WithCall([ty \in {"integer"} |-> PrintNative]),
     WithCall([ty \in {"object", "integer"} |->
                  IF ty = "object" THEN VNative(PrintNative.func, ArgExact(1))
                  ELSE PrintNative])}

\* Builtins::new() with two properties in the table of the root type.
PropertyRegistries ==
    {Builtins_new,
     [Builtins_new EXCEPT !.properties["object"] =
         [n \in {"q", "push"} |-> IF n = "q" THEN VInteger(5) ELSE VInteger(6)]]}

\* The instance property tables of the Objects.
InputTables ==
    {EmptyTable,
     [n \in {"p"} |-> VInteger(3)],
     [n \in {"p"} |-> InputFunction(<<"a">>)],
     [n \in {"p"} |-> PrintNative],
     [n \in {"push", "q"} |-> VInteger(4)]}

\* Heap cell 1 is a list, cells 2..4 hold the table of an Object.
InputTargets ==
    {VInteger(1), VList(1), VObject(2, "object"), VObject(3, "list"),
     VObject(4, "integer")}

Reverse(seq) == [i \in 1..Len(seq) |-> seq[Len(seq) + 1 - i]]

\* A root frame about to execute `instruction` on `stack`.
RootFrame(instruction, names, stack) ==
    [Frame_new([instructions |-> <<instruction, Instruction("Exit", 0)>>,
                constants |-> <<>>,
                names |-> names,
                parameters |-> 0], 0, 0) EXCEPT !.stack = stack]

InterpreterInputs ==
    {[builtins |-> registry,
      frame |-> RootFrame(Instruction("Call", Len(args)), <<>>,
                          Reverse(args) \o <<callable>>),
      lists |-> <<<<VInteger(0)>>>>] :
        registry \in CallRegistries,
        callable \in InputFunctions \cup InputNatives \cup InputBounds
                        \cup {VInteger(5), VString("s"), VNull},
        args \in InputArguments}
    \cup
    {[builtins |-> registry,
      frame |-> RootFrame(Instruction("LoadProperty", 0), <<prop>>, <<target>>),
      lists |-> <<<<VInteger(0)>>, table, table, table>>] :
        registry \in PropertyRegistries,
        target \in InputTargets,
        table \in InputTables,
        prop \in {"p", "push", "q"}}

InitInterpreter ==
    \E input \in InterpreterInputs :
        /\ builtins = input.builtins
        /\ call_with_return = NoCallWithReturn
        /\ module = <<>>
        /\ code_builder = CodeBuilder_new(0)
        /\ status = "run"
        /\ error = ""
        /\ exit_code = -1
        /\ frames = <<input.frame>>
        /\ frame = 1
        /\ next_action = NoAction
        /\ lists = input.lists
        /\ stdout = <<>>
        /\ fetched = <<{}>>
        /\ call_base = <<<<>>>>
        /\ returned = {}

NextInterpreter ==
    \/ call
    \/ load_property
    \/ TakeCall
    \/ TakeReturnNative
    \/ TakeReturn
    \/ load_constant
    \/ load_variable
    \/ return_statement
    \/ exit

InterpreterSpec == InitInterpreter /\ [][NextInterpreter]_vars

\* The callable under the Bound wrappers of a value, and the receivers in
\* the order they come to stand before the arguments.
RECURSIVE BoundCallable(_)
BoundCallable(v) == IF v.tag = "Bound" THEN BoundCallable(v.callable) ELSE v

RECURSIVE BoundReceivers(_)
BoundReceivers(v) ==
    IF v.tag = "Bound" THEN BoundReceivers(v.callable) \o <<v.receiver>> ELSE <<>>

\* The callable and the arguments an instruction Call is about to pop.
CallCallable == Top(Cur.stack, 0)

CallArguments == [i \in 1..CurInstruction.arg |-> Top(Cur.stack, i)]

CallReady == Fetching("Call") /\ Len(Cur.stack) >= CurInstruction.arg + 1

(***************************************************************************)
(* C15: a Call whose callable is a user function, bare or under Bound      *)
(* wrappers, is a fatal error when the number of arguments, receivers      *)
(* included, differs from the parameter count of the function's Code: no   *)
(* frame is made, the active frame stays active and untouched, and no      *)
(* action is pending.  With equal counts the call makes a frame (when the  *)
(* name pool holds that many names).                                       *)
(***************************************************************************)
FunctionArityExact ==
    [][(CallReady /\ BoundCallable(CallCallable).tag = "Function") =>
          LET code == BoundCallable(CallCallable).code
              supplied == Len(BoundReceivers(CallCallable)) + CurInstruction.arg
          IN IF code.parameters # supplied
             THEN /\ status' = "panic"
                  /\ frames' = frames
                  /\ frame' = frame
                  /\ next_action' = NoAction
                  /\ fetched' = fetched
             ELSE code.parameters <= Len(code.names) =>
                     /\ status' = "run"
                     /\ next_action'.a = "Call"
                     /\ Len(frames') = Len(frames) + 1
      ]_vars

\* A two-parameter function under one Bound wrapper was called with two
\* arguments, three with the receiver, and the call has failed.
BoundFunctionArityFailed ==
    /\ status = "panic"
    /\ CurInstruction.op = "Call"
    /\ CurInstruction.arg = 2
    /\ CallCallable.tag = "Bound"
    /\ CallCallable.callable.tag = "Function"
    /\ CallCallable.callable.code.parameters = 2
    /\ Len(frames) = 1

(***************************************************************************)
(* C16: a Call whose callable is a native, bare or under Bound wrappers,   *)
(* runs the native's body exactly when the number of arguments, receivers  *)
(* included, satisfies the native's arity pattern: Any takes every count,  *)
(* Exact(n) only n, Min(n) the counts >= n, Max(n) the counts <= n,        *)
(* Range(lo, hi) the counts from lo to hi.  Every other count is a fatal   *)
(* error and the body has not run: nothing is printed, the heap and the    *)
(* frames are untouched.  (The native here is print, whose body prints one *)
(* line and returns Null.)                                                 *)
(***************************************************************************)
NativeBodyRunsIffArityFits ==
    [][(CallReady /\ BoundCallable(CallCallable).tag = "Native") =>
          LET pattern == BoundCallable(CallCallable).params
              count == Len(BoundReceivers(CallCallable)) + CurInstruction.arg
              fits == \/ pattern.p = "Any"
                      \/ pattern.p = "Exact" /\ count = pattern.n
                      \/ pattern.p = "Min" /\ count >= pattern.n
                      \/ pattern.p = "Max" /\ count <= pattern.n
                      \/ pattern.p = "Range" /\ pattern.min <= count
                                             /\ count <= pattern.max
          IN IF fits
             THEN /\ status' = "run"
                  /\ Len(stdout') = Len(stdout) + 1
                  /\ next_action' = ActionReturnNative(VNull)
             ELSE /\ status' = "panic"
                  /\ stdout' = stdout
                  /\ lists' = lists
                  /\ frames' = frames
                  /\ next_action' = NoAction
      ]_vars

\* print under Max(1) was called with two arguments: a fatal error, and
\* nothing was printed.
MaxPatternRejectedTwo ==
    /\ status = "panic"
    /\ CurInstruction.op = "Call"
    /\ CurInstruction.arg = 2
    /\ CallCallable = VNative(PrintNative.func, ArgMax(1))
    /\ stdout = <<>>

(***************************************************************************)
(* C17: a Call of a Bound value with the arguments a1..ak invokes the      *)
(* callable under the wrappers with the list [receiver, a1, .., ak]: a     *)
(* function binds its parameters to that list in order, print prints that  *)
(* list in order, and the arity of either is checked against the length of *)
(* that list.                                                              *)
(***************************************************************************)
BoundCallPrependsReceiver ==
    [][(CallReady /\ CallCallable.tag = "Bound") =>
          LET target == BoundCallable(CallCallable)
              extended == BoundReceivers(CallCallable) \o CallArguments
          IN CASE target.tag = "Function" ->
                    IF target.code.parameters = Len(extended)
                    THEN /\ next_action'.a = "Call"
                         /\ \A j \in 1..Len(extended) :
                               frames'[next_action'.frame].scope[target.code.names[j]]
                                   = extended[j]
                    ELSE status' = "panic" /\ error' = "expected args"
               [] target.tag = "Native" ->
                    IF ArityOk(target.params, Len(extended))
                    THEN /\ status' = "run"
                         /\ stdout' = Append(stdout, DisplayItems(extended, 1, lists).str)
                    ELSE status' = "panic" /\ error' = "expected args"
      ]_vars

\* print under two Bound wrappers, receivers 7 and 8, was called with (1, 2)
\* and has printed the receivers before the arguments.
ReceiversPrintedFirst ==
    /\ status = "run"
    /\ next_action = ActionReturnNative(VNull)
    /\ stdout = <<"7, 8, 1, 2">>

(***************************************************************************)
(* C18: a Call of a value that is not a Function, a Native or a Bound      *)
(* invokes the `call` slot of the first type, on the base chain of the     *)
(* value's type, that has one, with the value before the arguments; it is  *)
(* a fatal error only when no type of the chain has the slot.  (The slots  *)
(* here hold print, which prints the value and the arguments.)             *)
(***************************************************************************)
CallSlotFoundOnTypeChain ==
    [][(CallReady /\ CallCallable.tag \notin {"Function", "Native", "Bound"}) =>
          LET chain == TypeChain(TypeOf(CallCallable))
              owners == {k \in 1..Len(chain) : builtins.call[chain[k]] # <<>>}
              extended == <<CallCallable>> \o CallArguments
          IN IF owners = {}
             THEN status' = "panic" /\ error' = "does not support $call"
             ELSE LET slot == builtins.call[chain[CHOOSE k \in owners :
                                                    \A m \in owners : k <= m]][1]
                  IN IF ArityOk(slot.params, Len(extended))
                     THEN /\ status' = "run"
                          /\ stdout' = Append(stdout, DisplayItems(extended, 1, lists).str)
                     ELSE status' = "panic" /\ error' = "expected args"
      ]_vars

\* The integer 5 was called where the root type has a `call` slot and the
\* integer type has none: the call has failed for want of the slot.
CallSlotOfBaseTypeIgnored ==
    /\ status = "panic"
    /\ error = "does not support $call"
    /\ CurInstruction.op = "Call"
    /\ CallCallable = VInteger(5)
    /\ builtins.call["integer"] = <<>>
    /\ builtins.call["object"] # <<>>

(***************************************************************************)
(* C19: LoadProperty of the name n on a target, through the get_property   *)
(* of the root type, looks n up in the instance table of the target when   *)
(* it is an Object, then in the property table of the target's type, then  *)
(* in the table of each base type in chain order, and takes the first hit. *)
(* A hit that is a Function or a Native is returned as a Bound of the hit  *)
(* and the target, any other hit as it is; with no hit the load is a fatal *)
(* error.                                                                  *)
(***************************************************************************)
GetPropertyInstanceThenTypeChain ==
    [][(Fetching("LoadProperty") /\ Len(Cur.stack) >= 1) =>
          LET target == Top(Cur.stack, 0)
              n == CurName(CurInstruction.arg)
              chain == TypeChain(TypeOf(target))
              tables == (IF target.tag = "Object" THEN <<lists[target.obj]>> ELSE <<>>)
                            \o [k \in 1..Len(chain) |-> builtins.properties[chain[k]]]
              hits == {k \in 1..Len(tables) : n \in DOMAIN tables[k]}
          IN IF hits = {}
             THEN status' = "panic" /\ error' = "object has no property"
             ELSE LET hit == tables[CHOOSE k \in hits : \A m \in hits : k <= m][n]
                  IN /\ status' = "run"
                     /\ frames'[frame].stack = Drop(Cur.stack, 1)
                     /\ next_action' =
                            ActionReturnNative(IF hit.tag \in {"Function", "Native"}
                                               THEN VBound(hit, target)
                                               ELSE hit)
      ]_vars

\* The instance table of an Object holds `push`, and so does the table of
\* the root type: the load has returned the instance's 4.
InstancePropertyShadowsType ==
    /\ status = "run"
    /\ Cur.code.names = <<"push">>
    /\ Cur.instruction_count = 1
    /\ fetched[1] = {0}
    /\ next_action = ActionReturnNative(VInteger(4))
    /\ "push" \in DOMAIN builtins.properties["object"]

(***************************************************************************)
(* C20: in the compiled module and in every function Code nested in it,    *)
(* the name pool holds no name twice and the constant pool holds no        *)
(* Integer, String or Null constant twice; interning a name or such a      *)
(* constant that the pool holds returns the index of the entry and leaves  *)
(* the builder as it is.                                                   *)
(***************************************************************************)
InterningKeepsPoolsDistinct ==
    status # "compile" =>
        \A cb \in NestedBuilders(code_builder) :
            /\ \A i, j \in 1..Len(cb.names) : cb.names[i] = cb.names[j] => i = j
            /\ \A i, j \in 1..Len(cb.constants) :
                  (cb.constants[i].c \in {"Integer", "String", "Null"}
                      /\ cb.constants[i] = cb.constants[j]) => i = j
            /\ \A i \in 1..Len(cb.names) :
                  use_name(cb, cb.names[i]) = [cb |-> cb, idx |-> i - 1]
            /\ \A i \in 1..Len(cb.constants) :
                  cb.constants[i].c \in {"Integer", "String", "Null"} =>
                      use_constant(cb, cb.constants[i]) = [cb |-> cb, idx |-> i - 1]

\* print("a" + "a") is compiled: the pool holds one String constant, which
\* two LoadConstant instructions load.
SameConstantLoadedTwice ==
    /\ status # "compile"
    /\ \E cb \in NestedBuilders(code_builder) :
          \E i, j \in 1..Len(cb.instructions) :
              /\ i # j
              /\ cb.instructions[i].op = "LoadConstant"
              /\ cb.instructions[j] = cb.instructions[i]
              /\ cb.constants[cb.instructions[i].arg + 1] = ConstString("a")
              /\ Len(cb.constants) = 1



(***************************************************************************)
(* C21: an Equals instruction whose two operands are the same Bool,        *)
(* Integer, Float or String value returns true, and a NotEquals            *)
(* instruction on them returns false.                                      *)
(***************************************************************************)
EqualsIsReflexive ==
    [][(/\ Fetchable
        /\ CurInstruction.op \in {"Equals", "NotEquals"}
        /\ Len(Cur.stack) >= 2
        /\ Top(Cur.stack, 0) = Top(Cur.stack, 1)
        /\ Top(Cur.stack, 0).tag \in {"Bool", "Integer", "Float", "String"}) =>
          /\ status' = "run"
          /\ next_action' = ActionReturnNative(VBool(CurInstruction.op = "Equals"))
      ]_vars

\* let x = 0.0 / 0.0; print(x == x); has printed false.
NaNUnequalToItself ==
    /\ module = <<Let("x", Operation(Float(0), "Divide", Float(0))),
                  PrintCall(Operation(Identifier("x"), "Equals", Identifier("x")))>>
    /\ status = "exit"
    /\ frames[1].scope["x"] = VNaN
    /\ stdout = <<"false">>


(***************************************************************************)
(* C22: an Add instruction on two lists returns a new list holding the     *)
(* elements of the left one and then those of the right one, and leaves    *)
(* every existing list as it was, also when both operands are the same     *)
(* list; in let c = L + R; c.push(9); the lists a and b keep their         *)
(* elements from the declaration of c onwards.                             *)
(***************************************************************************)
ListAddReturnsNewList ==
    [][/\ (/\ Fetching("Add")
            /\ Len(Cur.stack) >= 2
            /\ Top(Cur.stack, 0).tag = "List"
            /\ Top(Cur.stack, 1).tag = "List") =>
              /\ status' = "run"
              /\ next_action' = ActionReturnNative(VList(Len(lists) + 1))
              /\ Len(lists') = Len(lists) + 1
              /\ lists'[Len(lists) + 1] =
                    lists[Top(Cur.stack, 0).list] \o lists[Top(Cur.stack, 1).list]
              /\ \A i \in 1..Len(lists) : lists'[i] = lists[i]
       /\ (module \in ConcatModules /\ Len(frames') >= 1
              /\ Frame_contains_variable(frames'[1], "c")) =>
              LET scope == frames'[1].scope
                  init == module[2].assign[1]
              IN /\ lists'[scope["a"].list] = <<VInteger(1)>>
                 /\ lists'[scope["b"].list] =
                       IF init.e = "List" THEN <<VInteger(init.items[1].int)>>
                       ELSE <<VInteger(1)>>
                 /\ scope["c"].list \notin {scope["a"].list, scope["b"].list}
      ]_vars

\* let a = [1]; let b = a; let c = a + a; c.push(9); has printed the three
\* lists: c has the pushed element, a and b have not.
PushOnSumNotSeenThroughOperands ==
    /\ module \in ConcatModules
    /\ module[2].assign[1] = Identifier("a")
    /\ module[3].assign[1] = Operation(Identifier("a"), "Add", Identifier("a"))
    /\ status = "exit"
    /\ stdout = <<"[1]", "[1]", "[1, 1, 9]">>


(***************************************************************************)
(* C23: a LoadSubscript or StoreSubscript on a list with an integer index  *)
(* below 0 or at or above the length of the list is a fatal error, and the *)
(* failing StoreSubscript leaves every list as it was.                     *)
(***************************************************************************)
SubscriptOutOfRangeIsFatal ==
    [][(/\ Fetchable
        /\ \/ CurInstruction.op = "LoadSubscript" /\ Len(Cur.stack) >= 2
           \/ CurInstruction.op = "StoreSubscript" /\ Len(Cur.stack) >= 3
        /\ Top(Cur.stack, 0).tag = "List"
        /\ Top(Cur.stack, 1).tag = "Integer"
        /\ \/ Top(Cur.stack, 1).int < 0
           \/ Top(Cur.stack, 1).int >= Len(lists[Top(Cur.stack, 0).list])) =>
          /\ status' = "panic"
          /\ error' = "index out of bounds"
          /\ lists' = lists
          /\ stdout' = stdout
      ]_vars

\* xs[0 - 1] = v on the list [1, 2] has failed and the list is still [1, 2].
StoreAtMinusOneFailed ==
    /\ status = "panic"
    /\ error = "index out of bounds"
    /\ CurInstruction.op = "StoreSubscript"
    /\ Top(Cur.stack, 1) = VInteger(-1)
    /\ lists[Top(Cur.stack, 0).list] = <<VInteger(1), VInteger(2)>>


(***************************************************************************)
(* Interpreter::call_with_return(value, args) on an interpreter whose      *)
(* root frame is active: call_value, then run_frame until it returns.      *)
(***************************************************************************)
\* The Code of fn(a) { return a + 1; }, fn(a) { print(a); return a; } and
\* fn(a) { return g(a); }
CalleeCode(body) ==
    [instructions |->
         CASE body = "operator" ->
                <<Instruction("LoadConstant", 0), Instruction("LoadVariable", 0),
                  Inst0("Add"), Inst0("Return"),
                  Instruction("LoadConstant", 1), Inst0("Return")>>
           [] body = "native" ->
                <<Instruction("LoadVariable", 0), Instruction("LoadVariable", 1),
                  Instruction("Call", 1), Inst0("Pop"),
                  Instruction("LoadVariable", 0), Inst0("Return"),
                  Instruction("LoadConstant", 0), Inst0("Return")>>
           [] body = "nested" ->
                <<Instruction("LoadVariable", 0), Instruction("LoadVariable", 1),
                  Instruction("Call", 1), Inst0("Return"),
                  Instruction("LoadConstant", 0), Inst0("Return")>>,
     constants |-> IF body = "operator" THEN <<VInteger(1), VNull>> ELSE <<VNull>>,
     names |-> CASE body = "operator" -> <<"a">>
                 [] body = "native" -> <<"a", "print">>
                 [] body = "nested" -> <<"a", "g">>,
     parameters |-> 1]

CalleeBodies == {"operator", "native", "nested"}

\* Sanity: CalleeCode is what the compiler makes of the three literals.
CalleeCodeIsCompiled ==
    /\ CalleeCode("operator") =
          build(CodeOfLiteral(Function(<<"a">>,
              <<StmtReturn(Operation(Identifier("a"), "Add", Integer(1)))>>)))
    /\ CalleeCode("native") =
          build(CodeOfLiteral(Function(<<"a">>,
              <<PrintCall(Identifier("a")), StmtReturn(Identifier("a"))>>)))
    /\ CalleeCode("nested") =
          build(CodeOfLiteral(Function(<<"a">>,
              <<StmtReturn(FunctionCall(Identifier("g"), <<Identifier("a")>>))>>)))

\* The values call_with_return is given: fn(a) { return a; }, fn() { .. },
\* the three functions above, print, and print bound to a receiver.
Callees ==
    {InputFunction(<<"a">>), InputFunction(<<>>), PrintNative,
     VBound(PrintNative, VInteger(7))}
        \cup {VFunction(CalleeCode(body), 1) : body \in CalleeBodies}

\* The root frame, which binds g to fn(a) { return a; }
CallerFrame(stack) ==
    Frame_declare(RootFrame(Inst0("Pop"), <<>>, stack), "g", InputFunction(<<"a">>))

InitCallWithReturn ==
    /\ builtins = Builtins_new
    /\ \E value \in Callees, v \in Vals :
          call_with_return = [phase |-> "call_value", value |-> value,
                              args |-> <<VInteger(v)>>, active |-> 1, result |-> VNull]
    /\ module = <<>>
    /\ code_builder = CodeBuilder_new(0)
    /\ status = "run"
    /\ error = ""
    /\ exit_code = -1
    /\ \E stack \in {<<>>, <<VInteger(9)>>} : frames = <<CallerFrame(stack)>>
    /\ frame = 1
    /\ next_action = NoAction
    /\ lists = <<>>
    /\ stdout = <<>>
    /\ fetched = <<{}>>
    /\ call_base = <<<<>>>>
    /\ returned = {}

\* call_with_return: self.call_value(value, args)
CallWithReturn ==
    /\ status = "run"
    /\ call_with_return.phase = "call_value"
    /\ LET r == call_value(call_with_return.value, call_with_return.args,
                           frame, lists, Len(frames))
       IN IF r.panic
          THEN /\ status' = "panic"
               /\ error' = r.error
               /\ UNCHANGED <<call_with_return, frames, next_action, lists, stdout,
                              fetched, call_base>>
          ELSE /\ frames' = frames \o r.newframe
               /\ next_action' = r.action
               /\ lists' = r.lists
               /\ stdout' = stdout \o r.out
               /\ fetched' = fetched \o [k \in 1..Len(r.newframe) |-> {}]
               /\ call_base' = call_base \o [k \in 1..Len(r.newframe) |-> Cur.stack]
               /\ call_with_return' = [call_with_return EXCEPT !.phase = "run_frame"]
               /\ UNCHANGED <<status, error>>
    /\ UNCHANGED <<builtins, module, code_builder, exit_code, frame, returned>>

\* call_with_return: self.run_frame() takes Action::ReturnNative and returns
\* the value to the caller of call_with_return.
RunFrameReturnNative ==
    /\ status = "run"
    /\ call_with_return.phase = "run_frame"
    /\ next_action.a = "ReturnNative"
    /\ next_action' = NoAction
    /\ call_with_return' =
          [call_with_return EXCEPT !.phase = "returned", !.result = next_action.value]
    /\ UNCHANGED <<builtins, module, code_builder, status, error, exit_code, frames,
                   frame, lists, stdout, fetched, call_base, returned>>

\* call_with_return: self.run_frame() takes Action::Return, makes the caller
\* of the active frame active and returns the value.
RunFrameReturn ==
    /\ status = "run"
    /\ call_with_return.phase = "run_frame"
    /\ next_action.a = "Return"
    /\ IF ReturnTarget(Cur) # 0
       THEN /\ frame' = ReturnTarget(Cur)
            /\ next_action' = NoAction
            /\ call_with_return' =
                  [call_with_return EXCEPT !.phase = "returned",
                                           !.result = next_action.value]
            /\ UNCHANGED <<status, exit_code>>
       ELSE /\ status' = "exit"
            /\ exit_code' = 0
            /\ UNCHANGED <<call_with_return, frame, next_action>>
    /\ UNCHANGED <<builtins, module, code_builder, error, frames, lists, stdout,
                   fetched, call_base, returned>>

\* run_frame's loop inside call_with_return: Action::Call and execute().
RunFrameStep ==
    /\ call_with_return.phase = "run_frame"
    /\ \/ TakeCall
       \/ load_constant
       \/ load_variable
       \/ operation
       \/ call
       \/ return_statement

NextCallWithReturn ==
    \/ CallWithReturn
    \/ RunFrameStep
    \/ RunFrameReturnNative
    \/ RunFrameReturn

CallWithReturnSpec == InitCallWithReturn /\ [][NextCallWithReturn]_vars

(***************************************************************************)
(* C24: call_with_return(value, args) returns when the call of `value`     *)
(* returns: for a Native with the native's result, for a Function with the *)
(* value of a Return instruction executed by the frame made for the call;  *)
(* and the frame that was active at the call is active again.              *)
(***************************************************************************)
CallWithReturnYieldsCalleeReturn ==
    [][call_with_return'.phase = "returned" /\ call_with_return.phase = "run_frame" =>
          /\ frame' = call_with_return.active
          /\ BoundCallable(call_with_return.value).tag = "Function" =>
                /\ next_action.a = "Return"
                /\ frame = 2
                /\ frames[2].calling_frame = call_with_return.active
      ]_vars

\* call_with_return(fn(a) { print(a); return a; }, [2]) has returned Null,
\* the result of print, with the function's frame active at its Pop.
ReturnedAtFirstNativeResult ==
    /\ call_with_return.phase = "returned"
    /\ call_with_return.value = VFunction(CalleeCode("native"), 1)
    /\ call_with_return.args = <<VInteger(2)>>
    /\ call_with_return.result = VNull
    /\ stdout = <<"2">>
    /\ frame = 2
    /\ CurInstruction.op = "Pop"


(***************************************************************************)
(* C25: a StoreSubscript or StoreProperty that completes pushes nothing:   *)
(* when the interpreter takes up the outcome of the instruction, the       *)
(* active frame's stack stays as the instruction's pops left it, so that   *)
(* let xs = [1, 2]; let ys = xs; xs[i] = v; print(ys[i]); print(ys); ends  *)
(* with the empty stack it started with.                                   *)
(***************************************************************************)
StoreLeavesNoResult ==
    [][/\ (/\ status = "run"
            /\ next_action.a = "ReturnNative"
            /\ Pc >= 1
            /\ Cur.code.instructions[Pc].op \in {"StoreSubscript", "StoreProperty"}) =>
              frames'[frame].stack = Cur.stack
       /\ (module \in SubscriptModules /\ status' = "exit") => frames'[1].stack = <<>>
      ]_vars

\* let xs = [1, 2]; let ys = xs; xs[0] = 1; print(ys[0]); print(ys); has
\* exited with the Null that set_subscript returned on the stack.
StoreSubscriptLeftNull ==
    /\ module \in SubscriptModules
    /\ Len(module) = 5
    /\ module[3] = Assignment(TargetSubscript(Identifier("xs"), Integer(0)), Integer(1))
    /\ status = "exit"
    /\ stdout = <<"1", "[1, 2]">>
    /\ frames[1].stack = <<VNull>>


\* The modules let xs = [1, 2]; let ys = xs; xs[i] = v; .. whose literal
\* index i is within the list.
StoreInRangeModules ==
    {m \in SubscriptModules :
        /\ Len(m) = 5
        /\ m[3].target.subscript.e = "Integer"
        /\ m[3].target.subscript.int < 2}

(***************************************************************************)
(* C26: a StoreSubscript with a list on top, an integer index within the   *)
(* list below it and a value below that replaces that one element of the   *)
(* list and nothing else; xs[i] = v reaches the instruction with v, i and  *)
(* xs in that order from the bottom, and the print(ys[i]); print(ys) that  *)
(* follow show v at index i through the other reference ys.                *)
(***************************************************************************)
StoreSubscriptReplacesElement ==
    [][/\ (/\ Fetching("StoreSubscript")
            /\ Len(Cur.stack) >= 3
            /\ Top(Cur.stack, 0).tag = "List"
            /\ Top(Cur.stack, 1).tag = "Integer"
            /\ Top(Cur.stack, 1).int >= 0
            /\ Top(Cur.stack, 1).int < Len(lists[Top(Cur.stack, 0).list])) =>
              /\ status' = "run"
              /\ Len(lists') = Len(lists)
              /\ \A c \in 1..Len(lists) :
                    /\ Len(lists'[c]) = Len(lists[c])
                    /\ \A k \in 1..Len(lists[c]) :
                          lists'[c][k] =
                              IF c = Top(Cur.stack, 0).list /\ k = Top(Cur.stack, 1).int + 1
                              THEN Top(Cur.stack, 2)
                              ELSE lists[c][k]
       /\ \A m \in StoreInRangeModules :
             LET i == m[3].target.subscript.int
                 v == m[3].source.int
             IN module = m =>
                  /\ Fetching("StoreSubscript") =>
                        Cur.stack = <<VInteger(v), VInteger(i), Cur.scope["xs"]>>
                  /\ status' = "exit" =>
                        stdout' = <<ToString(v),
                                    IF i = 0 THEN "[" \o ToString(v) \o ", 2]"
                                    ELSE "[1, " \o ToString(v) \o "]">>
      ]_vars

\* let xs = [1, 2]; let ys = xs; xs[1] = 0; print(ys[1]); print(ys); has
\* printed 0 and [1, 0].
StoredElementSeenThroughAlias ==
    /\ module \in StoreInRangeModules
    /\ module[3] = Assignment(TargetSubscript(Identifier("xs"), Integer(1)), Integer(0))
    /\ status = "exit"
    /\ lists[frames[1].scope["ys"].list] = <<VInteger(1), VInteger(0)>>
    /\ stdout = <<"0", "[1, 0]">>


(***************************************************************************)
(* C27: the code of every function literal ends with LoadConstant of the   *)
(* Null constant and Return, and a called frame that executes that last    *)
(* Return goes on running and returns Null.                                *)
(***************************************************************************)
FunctionEndsWithNullReturn ==
    [][/\ status = "compiled" =>
             \A cb \in NestedBuilders(code_builder) \ {code_builder} :
                 LET n == Len(cb.instructions) IN
                 /\ n >= 2
                 /\ cb.instructions[n] = Inst0("Return")
                 /\ cb.instructions[n - 1].op = "LoadConstant"
                 /\ cb.constants[cb.instructions[n - 1].arg + 1] = ConstNull
       /\ (/\ Fetching("Return")
            /\ Cur.calling_frame # 0
            /\ Pc = Len(Cur.code.instructions) - 1) =>
              /\ status' = "run"
              /\ next_action' = ActionReturn(VNull)
      ]_vars

\* let f = fn() { if 0 { return 1; } else { } }; print(f()); has printed
\* null: the call fell off the end of the body.
UntakenReturnYieldsNull ==
    /\ module = <<Let("f", Function(<<>>, <<If(Integer(0), <<StmtReturn(Integer(1))>>, <<>>)>>)),
                  PrintCall(Call0("f"))>>
    /\ status = "exit"
    /\ 2 \in returned
    /\ stdout = <<"null">>


\* The number of function literals written in an expression or a statement
\* list, those inside the body of another function literal left out.
RECURSIVE LiteralCountExpr(_)
RECURSIVE LiteralCountExprs(_)
RECURSIVE LiteralCountStmts(_)

LiteralCountExpr(e) ==
    CASE e.e = "Operation" -> LiteralCountExpr(e.lhs) + LiteralCountExpr(e.rhs)
      [] e.e = "Function" -> 1
      [] e.e = "FunctionCall" -> LiteralCountExpr(e.target) + LiteralCountExprs(e.args)
      [] e.e = "Subscript" -> LiteralCountExpr(e.expr) + LiteralCountExpr(e.subscript)
      [] e.e = "Property" -> LiteralCountExpr(e.expr)
      [] e.e = "List" -> LiteralCountExprs(e.items)
      [] OTHER -> 0

LiteralCountExprs(es) ==
    IF es = <<>> THEN 0 ELSE LiteralCountExpr(Head(es)) + LiteralCountExprs(Tail(es))

LiteralCountStmts(ss) ==
    IF ss = <<>> THEN 0
    ELSE LiteralCountStmts(Tail(ss)) +
         (LET st == Head(ss) IN
          CASE st.s \in {"Return", "Expression"} -> LiteralCountExpr(st.expr)
            [] st.s = "Declaration" -> LiteralCountExprs(st.assign)
            [] st.s = "Assignment" ->
                  LiteralCountExpr(st.source) +
                  (CASE st.target.t = "Identifier" -> 0
                     [] st.target.t = "Property" -> LiteralCountExpr(st.target.expr)
                     [] st.target.t = "Subscript" ->
                           LiteralCountExpr(st.target.expr)
                               + LiteralCountExpr(st.target.subscript))
            [] st.s = "If" ->
                  LiteralCountExpr(st.cond) + LiteralCountStmts(st.body)
                      + LiteralCountStmts(st.else_body))

\* The pool slots of a CodeBuilder that hold a code constant.
CodeSlots(cb) == {i \in 1..Len(cb.constants) : cb.constants[i].c = "Code"}

\* The addresses of its CreateFunction instructions.
CreateFunctionSites(cb) ==
    {p \in 1..Len(cb.instructions) : cb.instructions[p].op = "CreateFunction"}

(***************************************************************************)
(* C28: a code constant equals no constant of its pool, itself included,   *)
(* and interning one appends a slot; the pool of the module and of every   *)
(* function literal holds one code slot per function literal written in    *)
(* it, and its CreateFunction instructions load pairwise distinct slots,   *)
(* so that two identical literals get two slots, each built into a Code    *)
(* object of its own.                                                      *)
(***************************************************************************)
FunctionLiteralsGetOwnSlots ==
    status = "compiled" =>
        /\ \A cb \in NestedBuilders(code_builder) :
              /\ \A i \in CodeSlots(cb) :
                    /\ \A j \in 1..Len(cb.constants) :
                          ~ConstantEq(cb.constants[i], cb.constants[j])
                    /\ use_constant(cb, cb.constants[i]).idx = Len(cb.constants)
              /\ \A p \in CreateFunctionSites(cb) :
                    /\ p >= 2
                    /\ cb.instructions[p - 1].op = "LoadConstant"
                    /\ cb.instructions[p - 1].arg + 1 \in CodeSlots(cb)
              /\ \A p, q \in CreateFunctionSites(cb) :
                    cb.instructions[p - 1].arg = cb.instructions[q - 1].arg => p = q
              /\ Cardinality(CreateFunctionSites(cb)) = Cardinality(CodeSlots(cb))
        /\ Cardinality(CodeSlots(code_builder)) = LiteralCountStmts(module)
        /\ \A f \in FunctionsOfStmts(module) :
              Cardinality(CodeSlots(CodeOfLiteral(f))) = LiteralCountStmts(f.body)

\* let f = fn() { return 1; }; let g = fn() { return 1; }; .. is compiled:
\* the pool holds the same code in slots 0 and 1.
TwinLiteralsInTwoSlots ==
    /\ status = "compiled"
    /\ module \in TwinLiteralModules
    /\ Len(module) = 4
    /\ CodeSlots(code_builder) = {1, 2}
    /\ code_builder.constants[1] = code_builder.constants[2]
    /\ code_builder.instructions[1] = Instruction("LoadConstant", 0)
    /\ code_builder.instructions[4] = Instruction("LoadConstant", 1)


(***************************************************************************)
(* C29: CreateList(k) replaces the k operands on top of the stack by one   *)
(* new list of length k whose element i is the operand i places below the  *)
(* top; for let xs = [e0, .., e(k-1)] the operands stand with e0 on top,   *)
(* so that element i of xs is the value of e_i.                            *)
(***************************************************************************)
ListLiteralKeepsSourceOrder ==
    [][/\ (Fetching("CreateList") /\ Len(Cur.stack) >= CurInstruction.arg) =>
              LET k == CurInstruction.arg IN
              /\ status' = "run"
              /\ next_action' = NoAction
              /\ Len(lists') = Len(lists) + 1
              /\ \A c \in 1..Len(lists) : lists'[c] = lists[c]
              /\ frames'[frame].stack =
                    Append(Drop(Cur.stack, k), VList(Len(lists) + 1))
              /\ Len(lists'[Len(lists) + 1]) = k
              /\ \A i \in 1..k : lists'[Len(lists) + 1][i] = Top(Cur.stack, i - 1)
       /\ \A m \in ListLiteralModules :
             LET items == m[1].assign[1].items IN
             module = m =>
               /\ Fetching("CreateList") =>
                     /\ CurInstruction.arg = Len(items)
                     /\ Len(Cur.stack) = Len(items)
                     /\ \A i \in 1..Len(items) :
                           Top(Cur.stack, i - 1) = VInteger(items[i].int)
               /\ (Len(frames') >= 1 /\ Frame_contains_variable(frames'[1], "xs")) =>
                     lists'[frames'[1].scope["xs"].list] =
                         [i \in 1..Len(items) |-> VInteger(items[i].int)]
      ]_vars

\* let xs = [0, 1, 2]; print(xs[0]); print(xs); has printed 0 and [0, 1, 2].
LiteralPrintedInSourceOrder ==
    /\ module \in ListLiteralModules
    /\ module[1].assign[1] = List(<<Integer(0), Integer(1), Integer(2)>>)
    /\ status = "exit"
    /\ stdout = <<"0", "[0, 1, 2]">>


\* The program counter of the active frame is above every address the
\* frame has executed, and every jump of the compiled code goes to its own
\* address or further.
ProgramCounterOnlyAdvances ==
    /\ Fetchable => \A a \in fetched[frame] : a < Pc
    /\ status = "compiled" =>
          \A cb \in NestedBuilders(code_builder) :
              \A i \in 1..Len(cb.instructions) :
                  cb.instructions[i].op \in {"Jump", "JumpFalse"} =>
                      cb.instructions[i].arg >= i - 1

\* The process has ended with exit code 0.
ExitedWithZero == status = "exit" /\ exit_code = 0

\* The module frame has executed its last instruction, the Exit(0).
ExecutedExitInstruction ==
    /\ status = "exit"
    /\ Len(frames[1].code.instructions) - 1 \in fetched[1]
    /\ frames[1].code.instructions[Len(frames[1].code.instructions)] =
          Instruction("Exit", 0)

(***************************************************************************)
(* C30, as stated: the program counter of a frame only advances, so no     *)
(* frame executes an instruction twice, and every run comes to a fatal     *)
(* error, to a call of a user function, or to the execution of the         *)
(* module's Exit(0) instruction.                                           *)
(***************************************************************************)
ModuleRunsToExitInstruction ==
    /\ []ProgramCounterOnlyAdvances
    /\ <>(status = "panic" \/ Len(frames) > 1 \/ ExecutedExitInstruction)

(***************************************************************************)
(* C30, amended: the program counter of a frame only advances, so no       *)
(* frame executes an instruction twice, and every run comes to a fatal     *)
(* error, to a call of a user function, or to the end of the process with  *)
(* exit code 0: by the Exit(0) instruction, or by a Return of the module   *)
(* frame, which has no caller.                                             *)
(***************************************************************************)
ModuleRunsToExitZero ==
    /\ []ProgramCounterOnlyAdvances
    /\ <>(status = "panic" \/ Len(frames) > 1 \/ ExitedWithZero)
    /\ [](ExitedWithZero /\ Len(frames) = 1 =>
            ExecutedExitInstruction \/ returned = {1})

\* An if/else module has run its else branch over a Jump-free path and
\* executed Exit(0) without any call of a user function.
IfElseModuleReachedExit ==
    /\ module \in IfModules
    /\ Len(frames) = 1
    /\ ExecutedExitInstruction
    /\ \E a \in fetched[1] : frames[1].code.instructions[a + 1].op = "JumpFalse"
    /\ \E a \in 0..(Len(frames[1].code.instructions) - 1) : a \notin fetched[1]

\* return 0; print(1); has ended with exit code 0 at the Return, and the
\* Exit(0) instruction was never executed.
ModuleEndedAtReturn ==
    /\ module = <<StmtReturn(Integer(0)), PrintCall(Integer(1))>>
    /\ ExitedWithZero
    /\ returned = {1}
    /\ ~ExecutedExitInstruction


\* The lines a right-to-left evaluation of EvalOrderModule(kind, v, w)
\* prints: the trace of p(w), the trace of p(v), then the result.
EvalOrderLines(kind, v, w) ==
    <<ToString(w), ToString(v)>> \o
        (CASE kind = "operation" -> <<ToString(v + w)>>
           [] kind = "arguments" -> <<ToString(v)>>
           [] kind = "target" -> <<ToString(w)>>
           [] kind = "list" -> <<"[" \o ToString(v) \o ", " \o ToString(w) \o "]">>)

(***************************************************************************)
(* C31: sub-expressions are evaluated right to left.  With p printing its  *)
(* argument, p(v) + p(w) prints w before v, g(p(v), p(w)) prints w before  *)
(* v, mk(v)(p(w)) prints w (the argument) before v (the target), and       *)
(* [p(v), p(w)] prints w before v; none of them fails, and each ends with  *)
(* its result printed last.                                                *)
(***************************************************************************)
EvaluationIsRightToLeft ==
    \A kind \in EvalOrderKinds : \A v, w \in Vals :
        module = EvalOrderModule(kind, v, w) =>
            /\ status # "panic"
            /\ Len(stdout) <= 3
            /\ stdout = SubSeq(EvalOrderLines(kind, v, w), 1, Len(stdout))
            /\ status = "exit" => Len(stdout) = 3

\* mk(2)(p(1)) has printed 1 for the argument, then 2 for the target, then
\* 1 for the call itself.
ArgumentTracedBeforeTarget ==
    /\ module = EvalOrderModule("target", 2, 1)
    /\ status = "exit"
    /\ stdout = <<"1", "2", "1">>


(***************************************************************************)
(* C32: a function holds its enclosing frame itself, not a copy.  f reads  *)
(* the v that the module assigned to x, or declared as y, after the        *)
(* literal of f was evaluated; get reads the v that its sibling set stored *)
(* in the n of their common invocation of mk, while the get of the other   *)
(* invocation of mk still reads 0; and the frame a function holds is the   *)
(* frame that executed its CreateFunction.                                 *)
(***************************************************************************)
FunctionSharesEnclosingFrame ==
    [][/\ (Fetching("CreateFunction") /\ Len(Cur.stack) >= 1
              /\ Top(Cur.stack, 0).tag = "Code") =>
              /\ Len(frames') = Len(frames)
              /\ Top(frames'[frame].stack, 0).outer_frame = frame
       /\ \A kind \in CaptureKinds : \A v \in Vals :
             module = CaptureModule(kind, v) =>
               /\ status' # "panic"
               /\ status' = "exit" =>
                     stdout' = IF kind = "siblings" THEN <<ToString(v), "0">>
                               ELSE <<ToString(v)>>
      ]_vars

\* c[0](2); print(c[1]()); print(d[1]()); has printed 2 and 0: the two
\* invocations of mk have a frame each, with n = 2 and n = 0.
SiblingStoreSeenOtherInvocationNot ==
    /\ module = CaptureModule("siblings", 2)
    /\ status = "exit"
    /\ stdout = <<"2", "0">>
    /\ \E i, j \in 1..Len(frames) :
          /\ i # j
          /\ Frame_contains_variable(frames[i], "n")
          /\ Frame_contains_variable(frames[j], "n")
          /\ frames[i].scope["n"] = VInteger(2)
          /\ frames[j].scope["n"] = VInteger(0)


\* The arithmetic and ordering instructions.
NumberOperators == Operators \ {"Equals", "NotEquals"}

(***************************************************************************)
(* C33: an arithmetic or ordering instruction on one Integer and one Float *)
(* is a fatal error whichever of the two is on the right; on two Integers  *)
(* or two Floats it returns a value (an Integer division by zero apart).   *)
(***************************************************************************)
MixedNumbersAreFatal ==
    [][(/\ Fetchable
        /\ CurInstruction.op \in NumberOperators
        /\ Len(Cur.stack) >= 2
        /\ IsNumber(Top(Cur.stack, 0))
        /\ IsNumber(Top(Cur.stack, 1))) =>
          LET lhs == Top(Cur.stack, 0)
              rhs == Top(Cur.stack, 1)
          IN IF lhs.tag # rhs.tag
             THEN /\ status' = "panic"
                  /\ error' = "expected int"
                  /\ stdout' = stdout
             ELSE IF lhs.tag = "Integer" /\ CurInstruction.op = "Divide" /\ rhs.int = 0
             THEN status' = "panic"
             ELSE /\ status' = "run"
                  /\ next_action'.a = "ReturnNative"
                  /\ next_action'.value.tag =
                        IF CurInstruction.op \in {"Add", "Subtract", "Multiply", "Divide"}
                        THEN lhs.tag ELSE "Bool"
      ]_vars

\* print(1.0 < 2) has failed in the integer slot, which the Integer on the
\* right selected and which does not take the Float on the left.
FloatLeftOfIntegerFailed ==
    /\ module = <<PrintCall(Operation(Float(2), "LessThan", Integer(2)))>>
    /\ status = "panic"
    /\ error = "expected int"
    /\ CurInstruction.op = "LessThan"
    /\ Top(Cur.stack, 0) = VFloat(2)
    /\ Top(Cur.stack, 1) = VInteger(2)


\* Values of the built-in variants.
EqualityValues ==
    {VNull, VBool(TRUE), VBool(FALSE), VNaN, VFloatSpecial("inf"), VFloatSpecial("-inf"),
     VString(""), VString("a"), VList(1), VList(2), PrintNative,
     VNative([ty |-> "list", slot |-> "push"], ArgExact(2)),
     VObject(1, "object"), VObject(2, "object"),
     VFunction(InputCode(<<>>), 1), VFunction(InputCode(<<>>), 2), VCode(InputCode(<<>>))}
        \cup {VInteger(k) : k \in Vals} \cup {VFloat(h) : h \in 0..(2 * MaxInt)}

(***************************************************************************)
(* C34: equals(a, b) = equals(b, a) for the values of the built-in         *)
(* variants; an Equals instruction returns equals(lhs, rhs) and a          *)
(* NotEquals instruction its negation whatever the type of the operand on  *)
(* the right, so that exchanging the operands leaves the result as it is.  *)
(***************************************************************************)
EqualsIsSymmetric ==
    [][/\ \A a, b \in EqualityValues : equals(a, b) = equals(b, a)
       /\ (/\ Fetchable
            /\ CurInstruction.op \in {"Equals", "NotEquals"}
            /\ Len(Cur.stack) >= 2) =>
              LET lhs == Top(Cur.stack, 0)
                  rhs == Top(Cur.stack, 1)
              IN /\ equals(lhs, rhs) = equals(rhs, lhs)
                 /\ status' = "run"
                 /\ next_action' =
                       ActionReturnNative(VBool((CurInstruction.op = "Equals")
                                                   = equals(rhs, lhs)))
      ]_vars

\* print(1 == (0 < 1)) has printed true: the Integer on the left equals the
\* Bool on the right, as the Bool equals the Integer in print((0 < 1) == 1).
IntegerEqualsBoolOnTheRight ==
    /\ module = <<PrintCall(Operation(Integer(1), "Equals",
                                      Operation(Integer(0), "LessThan", Integer(1))))>>
    /\ status = "exit"
    /\ stdout = <<"true">>
    /\ equals(VBool(TRUE), VInteger(1))


(***************************************************************************)
(* C35: a JumpFalse with Bool false, Integer 0 or Float 0.0 on top of the  *)
(* stack pops it and resumes after its target; with Bool true or a         *)
(* non-zero Integer or Float it pops it and goes on with the next          *)
(* instruction; with a value of any other variant it is a fatal error.     *)
(***************************************************************************)
JumpFalseTakesOnlyTruthValues ==
    [][(Fetching("JumpFalse") /\ Len(Cur.stack) >= 1) =>
          LET v == Top(Cur.stack, 0)
              falsy == v \in {VBool(FALSE), VInteger(0), VFloat(0)}
              truthy == \/ v = VBool(TRUE)
                        \/ v.tag = "Integer" /\ v.int # 0
                        \/ v.tag = "Float" /\ v # VFloat(0)
          IN IF falsy \/ truthy
             THEN /\ status' = "run"
                  /\ frame' = frame
                  /\ Len(frames') = Len(frames)
                  /\ frames'[frame].stack = Drop(Cur.stack, 1)
                  /\ frames'[frame].instruction_count =
                        IF falsy THEN CurInstruction.arg + 1 ELSE Pc + 1
                  /\ stdout' = stdout
             ELSE /\ status' = "panic"
                  /\ error' = "expected bool"
                  /\ stdout' = stdout
      ]_vars

\* let n; if n { print(1); } print(0); has failed at its JumpFalse with Null
\* on top of the stack and nothing printed.
NullConditionFailed ==
    /\ module = <<Declaration("n", <<>>),
                  If(Identifier("n"), <<PrintCall(Integer(1))>>, <<>>),
                  PrintCall(Integer(0))>>
    /\ status = "panic"
    /\ error = "expected bool"
    /\ CurInstruction.op = "JumpFalse"
    /\ Top(Cur.stack, 0) = VNull
    /\ stdout = <<>>

====
